---- MODULE Spec2Model ----
(***************************************************************************)
(* Shift-template versioning and work-shift resolution of the shift        *)
(* calendar server (calendarService / shiftTemplateService and the         *)
(* Sequelize models they write through).                                   *)
(*                                                                         *)
(* The relational store is the record db: one field per table, each a set  *)
(* of rows, plus next_id, the source of fresh primary keys (UUIDV4 in the  *)
(* models).  A service call is one action: it runs the whole function on   *)
(* db and leaves either the committed store or, when the function throws,  *)
(* the store as the surrounding transaction leaves it.  last records the   *)
(* call that ran (operation, caller, arguments) with the error message it  *)
(* threw ("OK" when it returned) and the payload of the error or result;   *)
(* prev is the store as it was when that call began.                       *)
(*                                                                         *)
(* Representation                                                          *)
(*   work_date "YYYY-MM-DD"     the day number d                           *)
(*   a JS Date                  minutes since day 0, 00:00 UTC             *)
(*   TIME "HH:mm:ss"            <<h, m, s>>; null is <<>>, undefined <<-1>>*)
(*   deleted_at                 FALSE for null, TRUE once stamped          *)
(* The server process runs in Asia/Seoul (ServerUtcOffset); every zone at  *)
(* or east of UTC gives the same calendar days.                            *)
(* Columns no modelled operation reads (color, sort_order,                 *)
(* visibility_level, timestamps) are left out of the rows.                 *)
(***************************************************************************)
EXTENDS Integers, Sequences, FiniteSets, TLC

VARIABLES db, prev, last, nops, pending, calls

vars == <<db, prev, last, nops, pending, calls>>

(***************************************************************************)
(* Bounds of the model                                                     *)
(***************************************************************************)
MaxDate == 3
MaxOps == 2
MaxBatch == 2
MaxSteps == 5
MaxSecond == 3

Users == {"u1", "u2"}
Dates == 1..MaxDate
ServerUtcOffset == 9 * 60

NoteNull == "<null>"
NoteUndef == "<undefined>"
CodeUndef == "<undefined>"
TimeNull == <<>>
TimeUndef == <<-1>>

NoOut == [none |-> TRUE]

(***************************************************************************)
(* Program constants                                                       *)
(***************************************************************************)
MAX_SHIFT_TYPES_PER_TEMPLATE == 10

\* the Korean name of the source, in English
DEFAULT_TEMPLATE_NAME == "default 3-shift"

DEFAULT_SHIFT_TYPES ==
  << [code |-> "D", start_time |-> <<6, 30, 0>>, end_time |-> <<15, 0, 0>>,
      crosses_midnight |-> FALSE, duration_minutes |-> 510],
     [code |-> "E", start_time |-> <<14, 30, 0>>, end_time |-> <<23, 0, 0>>,
      crosses_midnight |-> FALSE, duration_minutes |-> 510],
     [code |-> "N", start_time |-> <<22, 30, 0>>, end_time |-> <<7, 0, 0>>,
      crosses_midnight |-> TRUE, duration_minutes |-> 510],
     [code |-> "OFF", start_time |-> TimeNull, end_time |-> TimeNull,
      crosses_midnight |-> FALSE, duration_minutes |-> 0] >>

(***************************************************************************)
(* Dates: new Date("YYYY-MM-DD") is UTC midnight of the day, setHours      *)
(* works in the zone of the process, and a Date bound to a DATEONLY column *)
(* is written as its calendar day in the zone of the process.              *)
(***************************************************************************)
MinutesPerDay == 24 * 60

NewDate(work_date) == work_date * MinutesPerDay

SetHoursZero(t, offset) ==
  ((t + offset) \div MinutesPerDay) * MinutesPerDay - offset

DateOnly(t, offset) == (t + offset) \div MinutesPerDay

\* note || null
NoteOrNull(note) == IF note \in {NoteUndef, NoteNull, ""} THEN NoteNull ELSE note

(***************************************************************************)
(* Outcomes of a service call                                              *)
(***************************************************************************)
Fail(d, e, out) == [db |-> d, err |-> e, out |-> out]

Ok(d, out) == [db |-> d, err |-> "OK", out |-> out]

(***************************************************************************)
(* Queries                                                                 *)
(***************************************************************************)
\* ShiftTemplate.findOne({owner_user_id, deleted_at: null})
FindTemplate(d, user_id) ==
  {t \in d.templates : t.owner_user_id = user_id /\ ~t.deleted_at}

\* ShiftType.findOne({code, deleted_at: null}, include template of the owner)
FindShiftTypeOfUser(d, code, user_id) ==
  {st \in d.shift_types :
     /\ st.code = code
     /\ ~st.deleted_at
     /\ \E t \in FindTemplate(d, user_id) : t.template_id = st.template_id}

\* Variant of FindShiftTypeOfTemplate: without the deleted_at filter
FindShiftTypeOfTemplateAnyState(d, code, template_id) ==
  {st \in d.shift_types : st.code = code /\ st.template_id = template_id}

\* ShiftType.findOne({code, template_id, deleted_at: null})
FindShiftTypeOfTemplate(d, code, template_id) ==
  {st \in d.shift_types :
     st.code = code /\ st.template_id = template_id /\ ~st.deleted_at}

\* Variant of LatestVersion: order effective_from ASC
EarliestVersion(d, template_id) ==
  {v \in d.versions :
     /\ v.template_id = template_id
     /\ \A w \in d.versions :
          w.template_id = template_id => v.effective_from <= w.effective_from}

\* ShiftTemplateVersion.findOne({template_id}, order effective_from DESC)
LatestVersion(d, template_id) ==
  {v \in d.versions :
     /\ v.template_id = template_id
     /\ \A w \in d.versions :
          w.template_id = template_id => w.effective_from <= v.effective_from}

\* ShiftTemplateVersion.findOne({template_id, effective_from <= day},
\*                              order effective_from DESC)
VersionAtOrBefore(d, template_id, day) ==
  {v \in d.versions :
     /\ v.template_id = template_id
     /\ v.effective_from <= day
     /\ \A w \in d.versions :
          (w.template_id = template_id /\ w.effective_from <= day)
             => w.effective_from <= v.effective_from}

FindSchedule(d, shift_type_id, template_version_id) ==
  {s \in d.schedules :
     /\ s.shift_type_id = shift_type_id
     /\ s.template_version_id = template_version_id}

(***************************************************************************)
(* Writes                                                                  *)
(***************************************************************************)
DefaultSchedule(schedule_id, shift_type_id, template_version_id) ==
  [schedule_id |-> schedule_id,
   shift_type_id |-> shift_type_id,
   template_version_id |-> template_version_id,
   start_time |-> TimeNull,
   end_time |-> TimeNull,
   crosses_midnight |-> FALSE,
   duration_minutes |-> 0]

\* Variant of FindOrCreateSchedule: create without looking first
CreateSchedule(d, shift_type_id, template_version_id) ==
  {[db |-> [d EXCEPT
              !.schedules = @ \cup
                 {DefaultSchedule(d.next_id, shift_type_id, template_version_id)},
              !.next_id = @ + 1],
    schedule_id |-> d.next_id]}

\* Variant of FindOrCreateSchedule: the missing row is not created
FindScheduleOrNewId(d, shift_type_id, template_version_id) ==
  LET found == FindSchedule(d, shift_type_id, template_version_id)
  IN  IF found # {}
      THEN {[db |-> d, schedule_id |-> s.schedule_id] : s \in found}
      ELSE {[db |-> [d EXCEPT !.next_id = @ + 1], schedule_id |-> d.next_id]}

\* findOne the schedule of (shift type, version); create the default row
\* when there is none.  Yields the store and the schedule_id to bind.
FindOrCreateSchedule(d, shift_type_id, template_version_id) ==
  LET found == FindSchedule(d, shift_type_id, template_version_id)
  IN  IF found # {}
      THEN {[db |-> d, schedule_id |-> s.schedule_id] : s \in found}
      ELSE {[db |-> [d EXCEPT
                       !.schedules = @ \cup
                          {DefaultSchedule(d.next_id, shift_type_id,
                                           template_version_id)},
                       !.next_id = @ + 1],
             schedule_id |-> d.next_id]}

\* Variant of WorkShiftUpsert: a plain INSERT
WorkShiftInsert(d, user_id, day, schedule_id, note) ==
  [db |-> [d EXCEPT
             !.work_shifts = @ \cup
                {[work_shift_id |-> d.next_id,
                  owner_user_id |-> user_id,
                  work_date |-> day,
                  schedule_id |-> schedule_id,
                  note |-> note,
                  created_by_user_id |-> user_id,
                  deleted_at |-> FALSE,
                  deleted_by_user_id |-> "<null>"]},
             !.next_id = @ + 1],
   work_shift_id |-> d.next_id]

\* Variant of WorkShiftUpsert: INSERT ... ON CONFLICT DO NOTHING
WorkShiftInsertIfAbsent(d, user_id, day, schedule_id, note) ==
  LET conflict == {w \in d.work_shifts :
                     w.owner_user_id = user_id /\ w.work_date = day}
  IN  IF conflict = {}
      THEN WorkShiftInsert(d, user_id, day, schedule_id, note)
      ELSE [db |-> d,
            work_shift_id |-> (CHOOSE w \in conflict : TRUE).work_shift_id]

\* WorkShift.upsert(values, {conflictFields: [owner_user_id, work_date]}):
\* INSERT ... ON CONFLICT (owner_user_id, work_date) DO UPDATE SET the
\* columns given in values.  deleted_at and deleted_by_user_id are not
\* among them.
WorkShiftUpsert(d, user_id, day, schedule_id, note) ==
  LET conflict == {w \in d.work_shifts :
                     w.owner_user_id = user_id /\ w.work_date = day}
  IN  IF conflict = {}
      THEN [db |-> [d EXCEPT
                      !.work_shifts = @ \cup
                         {[work_shift_id |-> d.next_id,
                           owner_user_id |-> user_id,
                           work_date |-> day,
                           schedule_id |-> schedule_id,
                           note |-> note,
                           created_by_user_id |-> user_id,
                           deleted_at |-> FALSE,
                           deleted_by_user_id |-> "<null>"]},
                      !.next_id = @ + 1],
            work_shift_id |-> d.next_id]
      ELSE LET old == CHOOSE w \in conflict : TRUE
           IN  [db |-> [d EXCEPT
                          !.work_shifts = (@ \ {old}) \cup
                             {[old EXCEPT !.schedule_id = schedule_id,
                                          !.note = note,
                                          !.created_by_user_id = user_id]}],
                work_shift_id |-> old.work_shift_id]

(***************************************************************************)
(* calendarService.upsertWorkShift                                         *)
(***************************************************************************)
upsertWorkShift(d, offset, user_id, work_date, shift_type_code, note) ==
  LET shift_types == FindShiftTypeOfUser(d, shift_type_code, user_id)
      templates == FindTemplate(d, user_id)
  IN  IF shift_types = {} THEN {Fail(d, "SHIFT_TYPE_NOT_FOUND", NoOut)}
      ELSE IF templates = {} THEN {Fail(d, "TEMPLATE_NOT_FOUND", NoOut)}
      ELSE UNION {
        LET versions == LatestVersion(d, template.template_id)
        IN  IF versions = {} THEN {Fail(d, "TEMPLATE_NOT_FOUND", NoOut)}
            ELSE UNION {
              { LET up == WorkShiftUpsert(sc.db, user_id,
                                          DateOnly(NewDate(work_date), offset),
                                          sc.schedule_id, NoteOrNull(note))
                IN  Ok(up.db, [work_shift_id |-> up.work_shift_id])
                : sc \in FindOrCreateSchedule(d, shift_type.shift_type_id,
                                              latest_version.template_version_id) }
              : latest_version \in versions }
        : shift_type \in shift_types, template \in templates }

(***************************************************************************)
(* calendarService.updateWorkShift                                         *)
(***************************************************************************)
\* Variant of FindWorkShift: without the deleted_at filter
FindWorkShiftAnyState(d, work_shift_id, user_id) ==
  {w \in d.work_shifts :
     /\ w.work_shift_id = work_shift_id
     /\ w.owner_user_id = user_id}

\* Variant of FindWorkShift: without the owner_user_id filter
FindWorkShiftAnyOwner(d, work_shift_id, user_id) ==
  {w \in d.work_shifts : w.work_shift_id = work_shift_id /\ ~w.deleted_at}

FindWorkShift(d, work_shift_id, user_id) ==
  {w \in d.work_shifts :
     /\ w.work_shift_id = work_shift_id
     /\ w.owner_user_id = user_id
     /\ ~w.deleted_at}

\* work_shift.update(update_data)
WorkShiftUpdate(d, old, new) ==
  [d EXCEPT !.work_shifts = (@ \ {old}) \cup {new}]

updateWorkShift(d, user_id, work_shift_id, shift_type_code, note) ==
  LET found == FindWorkShift(d, work_shift_id, user_id)
      with_note(w) == IF note # NoteUndef THEN [w EXCEPT !.note = note] ELSE w
  IN  IF found = {} THEN {Fail(d, "WORK_SHIFT_NOT_FOUND", NoOut)}
      ELSE UNION {
        IF shift_type_code \in {CodeUndef, ""}
        THEN {Ok(WorkShiftUpdate(d, work_shift, with_note(work_shift)),
                 [work_shift_id |-> work_shift_id])}
        ELSE
          LET shift_types == FindShiftTypeOfUser(d, shift_type_code, user_id)
              templates == FindTemplate(d, user_id)
          IN  IF shift_types = {} THEN {Fail(d, "SHIFT_TYPE_NOT_FOUND", NoOut)}
              ELSE IF templates = {} THEN {Fail(d, "TEMPLATE_NOT_FOUND", NoOut)}
              ELSE UNION {
                LET versions == LatestVersion(d, template.template_id)
                IN  IF versions = {} THEN {Fail(d, "TEMPLATE_NOT_FOUND", NoOut)}
                    ELSE UNION {
                      { Ok(WorkShiftUpdate(sc.db, work_shift,
                              with_note([work_shift EXCEPT
                                           !.schedule_id = sc.schedule_id])),
                           [work_shift_id |-> work_shift_id])
                        : sc \in FindOrCreateSchedule(d, shift_type.shift_type_id,
                                   latest_version.template_version_id) }
                      : latest_version \in versions }
                : shift_type \in shift_types, template \in templates }
        : work_shift \in found }

(***************************************************************************)
(* calendarService.deleteWorkShift                                         *)
(***************************************************************************)
deleteWorkShift(d, user_id, work_shift_id) ==
  LET found == FindWorkShift(d, work_shift_id, user_id)
  IN  IF found = {} THEN {Fail(d, "WORK_SHIFT_NOT_FOUND", NoOut)}
      ELSE { Ok(WorkShiftUpdate(d, work_shift,
                   [work_shift EXCEPT !.deleted_at = TRUE,
                                      !.deleted_by_user_id = user_id]),
                NoOut)
             : work_shift \in found }

(***************************************************************************)
(* calendarService.getWorkShifts: the live rows of the user in the range,  *)
(* inner-joined with their schedule and shift type                         *)
(***************************************************************************)
WorkShiftDetails(d, rows) ==
  {[work_shift_id |-> w.work_shift_id,
    work_date |-> w.work_date,
    shift_type_code |-> st.code,
    schedule_id |-> w.schedule_id,
    note |-> NoteOrNull(w.note)]
   : <<w, s, st>> \in
       {x \in rows \X d.schedules \X d.shift_types :
          /\ x[1].schedule_id = x[2].schedule_id
          /\ x[2].shift_type_id = x[3].shift_type_id}}

getWorkShifts(d, user_id, start_date, end_date) ==
  WorkShiftDetails(d,
    {w \in d.work_shifts :
       /\ w.owner_user_id = user_id
       /\ start_date <= w.work_date /\ w.work_date <= end_date
       /\ ~w.deleted_at})

(***************************************************************************)
(* calendarService.batchUpsertWorkShifts                                   *)
(***************************************************************************)
\* Variant of DuplicateDates: dates.indexOf(date) === index
FirstSeenDates(work_shifts) ==
  {work_shifts[i].work_date : i \in
     {j \in 1..Len(work_shifts) :
        \A k \in 1..(j - 1) : work_shifts[k].work_date # work_shifts[j].work_date}}

\* dates.filter((date, index) => dates.indexOf(date) !== index), as a set
DuplicateDates(work_shifts) ==
  {work_shifts[i].work_date : i \in
     {j \in 1..Len(work_shifts) :
        \E k \in 1..(j - 1) : work_shifts[k].work_date = work_shifts[j].work_date}}

\* Variant of Rollback: the writes of the transaction stay
NoRollback(before, working) == working

\* transaction.rollback(): the store as it was when the transaction began
Rollback(before, working) == before

\* Variant of ResolveVersionForDate: the latest version for every date
ResolveLatestVersion(d, template_id, work_date, offset) ==
  LatestVersion(d, template_id)

\* the version in force on the entry's own date, else the latest one
ResolveVersionForDate(d, template_id, work_date, offset) ==
  LET work_date_obj == SetHoursZero(NewDate(work_date), offset)
      valid == VersionAtOrBefore(d, template_id, DateOnly(work_date_obj, offset))
  IN  IF valid # {} THEN valid ELSE LatestVersion(d, template_id)

\* the for loop over the entries, from entry i on, inside the transaction
RECURSIVE BatchEntries(_, _, _, _, _, _, _, _)
BatchEntries(before, d, offset, user_id, template, work_shifts, i, saved) ==
  IF i > Len(work_shifts)
  THEN {Ok(d, [work_shifts |->
                 WorkShiftDetails(d, {w \in d.work_shifts :
                                        w.work_shift_id \in saved})])}
  ELSE
    LET ws == work_shifts[i]
        shift_types == FindShiftTypeOfTemplate(d, ws.shift_type_code,
                                               template.template_id)
        versions == ResolveVersionForDate(d, template.template_id,
                                          ws.work_date, offset)
    IN  IF shift_types = {}
        THEN {Fail(Rollback(before, d), "INVALID_SHIFT_TYPE",
                   [invalid_code |-> ws.shift_type_code,
                    work_date |-> ws.work_date])}
        ELSE IF versions = {}
        THEN {Fail(Rollback(before, d), "TEMPLATE_VERSION_NOT_FOUND",
                   [work_date |-> ws.work_date])}
        ELSE UNION {
          UNION {
            LET up == WorkShiftUpsert(sc.db, user_id,
                                      DateOnly(NewDate(ws.work_date), offset),
                                      sc.schedule_id, NoteOrNull(ws.note))
            IN  BatchEntries(before, up.db, offset, user_id, template,
                             work_shifts, i + 1, saved \cup {up.work_shift_id})
            : sc \in FindOrCreateSchedule(d, shift_type.shift_type_id,
                                          valid_version.template_version_id) }
          : shift_type \in shift_types, valid_version \in versions }

batchUpsertWorkShifts(d, offset, user_id, work_shifts) ==
  LET duplicate_dates == DuplicateDates(work_shifts)
      templates == FindTemplate(d, user_id)
  IN  IF duplicate_dates # {}
      THEN {Fail(d, "DUPLICATE_DATE", [duplicate_dates |-> duplicate_dates])}
      ELSE IF templates = {} THEN {Fail(d, "TEMPLATE_NOT_FOUND", NoOut)}
      ELSE UNION { BatchEntries(d, d, offset, user_id, template,
                                work_shifts, 1, {})
                   : template \in templates }

(***************************************************************************)
(* shiftTemplateService                                                    *)
(***************************************************************************)
\* createDefaultShiftTemplate, in one transaction: the template, version 1
\* effective today, the default shift types and their schedules
createDefaultShiftTemplate(d, user_id, today) ==
  LET n == Len(DEFAULT_SHIFT_TYPES)
      template_id == d.next_id
      template_version_id == d.next_id + 1
  IN  [d EXCEPT
         !.templates = @ \cup
            {[template_id |-> template_id, owner_user_id |-> user_id,
              name |-> DEFAULT_TEMPLATE_NAME, deleted_at |-> FALSE]},
         !.versions = @ \cup
            {[template_version_id |-> template_version_id,
              template_id |-> template_id,
              version_no |-> 1, effective_from |-> today]},
         !.shift_types = @ \cup
            {[shift_type_id |-> d.next_id + 1 + i, template_id |-> template_id,
              code |-> DEFAULT_SHIFT_TYPES[i].code, deleted_at |-> FALSE]
             : i \in 1..n},
         !.schedules = @ \cup
            {[schedule_id |-> d.next_id + 1 + n + i,
              shift_type_id |-> d.next_id + 1 + i,
              template_version_id |-> template_version_id,
              start_time |-> DEFAULT_SHIFT_TYPES[i].start_time,
              end_time |-> DEFAULT_SHIFT_TYPES[i].end_time,
              crosses_midnight |-> DEFAULT_SHIFT_TYPES[i].crosses_midnight,
              duration_minutes |-> DEFAULT_SHIFT_TYPES[i].duration_minutes]
             : i \in 1..n},
         !.next_id = @ + 2 + 2 * n]

hasDefaultTemplate(d, user_id) == FindTemplate(d, user_id) # {}

\* unique index of shift_templates: (owner_user_id, name) WHERE deleted_at IS NULL
TemplateNameTaken(d, user_id, name) ==
  \E t \in d.templates :
    t.owner_user_id = user_id /\ t.name = name /\ ~t.deleted_at

\* createDefaultShiftTemplate against the store as it is when the call
\* reaches it: the insert of the template is refused by the unique index
CreateDefaultShiftTemplateNow(d, user_id, today) ==
  IF TemplateNameTaken(d, user_id, DEFAULT_TEMPLATE_NAME)
  THEN Fail(d, "SequelizeUniqueConstraintError", NoOut)
  ELSE Ok(createDefaultShiftTemplate(d, user_id, today), NoOut)

\* updateTemplateName: findOne without ORDER BY, so any live template of the user
updateTemplateName(d, user_id, name) ==
  LET found == FindTemplate(d, user_id)
  IN  IF found = {} THEN {Fail(d, "TEMPLATE_NOT_FOUND", NoOut)}
      ELSE { IF \E existing \in d.templates :
                  /\ existing.owner_user_id = user_id
                  /\ existing.name = name
                  /\ ~existing.deleted_at
                  /\ existing.template_id # template.template_id
             THEN Fail(d, "DUPLICATE_NAME", NoOut)
             ELSE Ok([d EXCEPT !.templates =
                        (@ \ {template}) \cup {[template EXCEPT !.name = name]}],
                     [template_id |-> template.template_id, name |-> name])
             : template \in found }

ensureDefaultTemplate(d, offset, user_id, now) ==
  IF ~hasDefaultTemplate(d, user_id)
  THEN {Ok(createDefaultShiftTemplate(d, user_id, DateOnly(now, offset)), NoOut)}
  ELSE {Ok(d, NoOut)}

\* Variant of calculateTimeInfo: the duration is never taken across midnight
calculateTimeInfoSameDay(start_time, end_time) ==
  IF start_time = TimeNull \/ end_time = TimeNull
  THEN [crosses_midnight |-> FALSE, duration_minutes |-> 0]
  ELSE LET start_total_minutes == start_time[1] * 60 + start_time[2]
           end_total_minutes == end_time[1] * 60 + end_time[2]
       IN  [crosses_midnight |-> start_total_minutes > end_total_minutes,
            duration_minutes |-> end_total_minutes - start_total_minutes]

calculateTimeInfo(start_time, end_time) ==
  IF start_time = TimeNull \/ end_time = TimeNull
  THEN [crosses_midnight |-> FALSE, duration_minutes |-> 0]
  ELSE LET start_total_minutes == start_time[1] * 60 + start_time[2]
           end_total_minutes == end_time[1] * 60 + end_time[2]
           crosses_midnight == start_total_minutes > end_total_minutes
       IN  [crosses_midnight |-> crosses_midnight,
            duration_minutes |->
              IF crosses_midnight
              THEN 24 * 60 - start_total_minutes + end_total_minutes
              ELSE end_total_minutes - start_total_minutes]

\* getCurrentVersion: the version with the greatest effective_from; throws
\* TEMPLATE_NOT_FOUND when the set is empty
getCurrentVersion(d, template_id) == LatestVersion(d, template_id)

\* a value that is neither undefined, null nor ""
Truthy(time) == time # TimeUndef /\ time # TimeNull

\* Variant of LiveShiftTypes: soft-deleted rows included
AllShiftTypes(d, template_id) ==
  {st \in d.shift_types : st.template_id = template_id}

LiveShiftTypes(d, template_id) ==
  {st \in d.shift_types : st.template_id = template_id /\ ~st.deleted_at}

\* sequelize.transaction(callback): a throw inside the callback rolls back
createShiftType(d, user_id, data) ==
  LET templates == FindTemplate(d, user_id)
  IN  IF templates = {} THEN {Fail(d, "TEMPLATE_NOT_FOUND", NoOut)}
      ELSE UNION {
        LET current_count == Cardinality(LiveShiftTypes(d, template.template_id))
            shift_type_id == d.next_id
            d1 == [d EXCEPT
                     !.shift_types = @ \cup
                        {[shift_type_id |-> shift_type_id,
                          template_id |-> template.template_id,
                          code |-> data.code, deleted_at |-> FALSE]},
                     !.next_id = @ + 1]
            timed == Truthy(data.start_time) /\ Truthy(data.end_time)
            start_time == IF timed THEN data.start_time ELSE TimeNull
            end_time == IF timed THEN data.end_time ELSE TimeNull
            time_info == calculateTimeInfo(start_time, end_time)
            versions == getCurrentVersion(d1, template.template_id)
        IN  IF current_count >= MAX_SHIFT_TYPES_PER_TEMPLATE
            THEN {Fail(Rollback(d, d), "MAX_SHIFT_TYPES_EXCEEDED", NoOut)}
            ELSE IF versions = {}
            THEN {Fail(Rollback(d, d1), "TEMPLATE_NOT_FOUND", NoOut)}
            ELSE { Ok([d1 EXCEPT
                         !.schedules = @ \cup
                            {[schedule_id |-> d1.next_id,
                              shift_type_id |-> shift_type_id,
                              template_version_id |->
                                 current_version.template_version_id,
                              start_time |-> start_time,
                              end_time |-> end_time,
                              crosses_midnight |-> time_info.crosses_midnight,
                              duration_minutes |-> time_info.duration_minutes]},
                         !.next_id = @ + 1],
                      [shift_type_id |-> shift_type_id,
                       start_time |-> start_time, end_time |-> end_time,
                       crosses_midnight |-> time_info.crosses_midnight,
                       duration_minutes |-> time_info.duration_minutes])
                   : current_version \in versions }
        : template \in templates }

\* Variant of Provided: an omitted field taken as given
AnyProvided(time) == TRUE

\* data.start_time !== undefined
Provided(time) == time # TimeUndef

FindShiftTypeById(d, shift_type_id) ==
  {st \in d.shift_types :
     /\ st.shift_type_id = shift_type_id
     /\ ~st.deleted_at
     /\ \E t \in d.templates : t.template_id = st.template_id}

\* Variant of IsOwner: no ownership check
AnyoneOwns(template, user_id) == TRUE

\* template.owner_user_id !== user_id throws FORBIDDEN
IsOwner(template, user_id) == template.owner_user_id = user_id

TemplateOf(d, shift_type) ==
  CHOOSE t \in d.templates : t.template_id = shift_type.template_id

\* the part of updateShiftType that handles the time fields, on the store
\* d1 in which the shift type row is already saved
UpdateScheduleTimes(d, d1, shift_type_id, current_version, data) ==
  LET existing == FindSchedule(d1, shift_type_id,
                               current_version.template_version_id)
      result(dd, st, en, ti) ==
        Ok(dd, [shift_type_id |-> shift_type_id,
                start_time |-> st, end_time |-> en,
                crosses_midnight |-> ti.crosses_midnight,
                duration_minutes |-> ti.duration_minutes])
      no_time == [crosses_midnight |-> FALSE, duration_minutes |-> 0]
  IN  IF Provided(data.start_time) /\ Provided(data.end_time)
      THEN
        IF Truthy(data.start_time) /\ Truthy(data.end_time)
        THEN
          LET time_info == calculateTimeInfo(data.start_time, data.end_time)
          IN  IF existing # {}
              THEN { result([d1 EXCEPT !.schedules = (@ \ {existing_schedule}) \cup
                               {[existing_schedule EXCEPT
                                   !.start_time = data.start_time,
                                   !.end_time = data.end_time,
                                   !.crosses_midnight = time_info.crosses_midnight,
                                   !.duration_minutes = time_info.duration_minutes]}],
                            data.start_time, data.end_time, time_info)
                     : existing_schedule \in existing }
              ELSE { result([d1 EXCEPT
                               !.schedules = @ \cup
                                  {[schedule_id |-> d1.next_id,
                                    shift_type_id |-> shift_type_id,
                                    template_version_id |->
                                       current_version.template_version_id,
                                    start_time |-> data.start_time,
                                    end_time |-> data.end_time,
                                    crosses_midnight |-> time_info.crosses_midnight,
                                    duration_minutes |-> time_info.duration_minutes]},
                               !.next_id = @ + 1],
                            data.start_time, data.end_time, time_info) }
        ELSE
          IF existing # {}
          THEN {
            LET in_use == {w \in d1.work_shifts :
                             /\ w.schedule_id = existing_schedule.schedule_id
                             /\ ~w.deleted_at}
                referenced == {w \in d1.work_shifts :
                                 w.schedule_id = existing_schedule.schedule_id}
            IN  IF in_use # {}
                THEN result([d1 EXCEPT !.schedules = (@ \ {existing_schedule}) \cup
                               {[existing_schedule EXCEPT
                                   !.start_time = TimeNull,
                                   !.end_time = TimeNull,
                                   !.crosses_midnight = FALSE,
                                   !.duration_minutes = 0]}],
                            TimeNull, TimeNull, no_time)
                \* existing_schedule.destroy(): work_shifts.schedule_id
                \* references the row, so the delete is refused while any
                \* work shift row, soft-deleted ones included, points to it
                ELSE IF referenced # {}
                THEN Fail(Rollback(d, d1),
                          "SequelizeForeignKeyConstraintError", NoOut)
                ELSE result([d1 EXCEPT !.schedules = @ \ {existing_schedule}],
                            TimeNull, TimeNull, no_time)
            : existing_schedule \in existing }
          ELSE {result(d1, TimeNull, TimeNull, no_time)}
      ELSE
        IF existing # {}
        THEN { result(d1, existing_schedule.start_time,
                      existing_schedule.end_time,
                      [crosses_midnight |-> existing_schedule.crosses_midnight,
                       duration_minutes |-> existing_schedule.duration_minutes])
               : existing_schedule \in existing }
        ELSE {result(d1, TimeNull, TimeNull, no_time)}

updateShiftType(d, user_id, shift_type_id, data) ==
  LET found == FindShiftTypeById(d, shift_type_id)
  IN  IF found = {} THEN {Fail(d, "SHIFT_TYPE_NOT_FOUND", NoOut)}
      ELSE UNION {
        LET template == TemplateOf(d, shift_type)
            saved == IF data.code # CodeUndef
                     THEN [shift_type EXCEPT !.code = data.code]
                     ELSE shift_type
            d1 == [d EXCEPT !.shift_types = (@ \ {shift_type}) \cup {saved}]
            versions == getCurrentVersion(d1, template.template_id)
        IN  IF ~IsOwner(template, user_id)
            THEN {Fail(Rollback(d, d), "FORBIDDEN", NoOut)}
            ELSE IF versions = {}
            THEN {Fail(Rollback(d, d1), "TEMPLATE_NOT_FOUND", NoOut)}
            ELSE UNION { UpdateScheduleTimes(d, d1, shift_type_id,
                                             current_version, data)
                         : current_version \in versions }
        : shift_type \in found }

\* Variant of WorkShiftsInUse: no reference is ever found
NoWorkShiftsInUse(d, schedule_ids) == {}

\* Variant of WorkShiftsInUse: deleted_at not looked at
WorkShiftsReferencing(d, schedule_ids) ==
  {w \in d.work_shifts : w.schedule_id \in schedule_ids}

\* WorkShift.findOne({schedule_id: {[Op.in]: schedule_ids}, deleted_at: null})
WorkShiftsInUse(d, schedule_ids) ==
  {w \in d.work_shifts : w.schedule_id \in schedule_ids /\ ~w.deleted_at}

deleteShiftType(d, user_id, shift_type_id) ==
  LET found == FindShiftTypeById(d, shift_type_id)
  IN  IF found = {} THEN {Fail(d, "SHIFT_TYPE_NOT_FOUND", NoOut)}
      ELSE {
        LET template == TemplateOf(d, shift_type)
            schedule_ids == {s.schedule_id : s \in
                               {x \in d.schedules :
                                  x.shift_type_id = shift_type_id}}
            in_use == WorkShiftsInUse(d, schedule_ids)
        IN  IF ~IsOwner(template, user_id)
            THEN Fail(Rollback(d, d), "FORBIDDEN", NoOut)
            ELSE IF schedule_ids # {} /\ in_use # {}
            THEN Fail(Rollback(d, d), "IN_USE", NoOut)
            ELSE Ok([d EXCEPT !.shift_types = (@ \ {shift_type}) \cup
                                 {[shift_type EXCEPT !.deleted_at = TRUE]}],
                    [shift_type_id |-> shift_type_id])
        : shift_type \in found }

(***************************************************************************)
(* The store before any service call: user u1 is registered and holds the  *)
(* default template; the versions of that template are whatever the        *)
(* version table holds (no service of the repository adds a version after  *)
(* the first one, so the table is populated from outside).                 *)
(***************************************************************************)
RECURSIVE SetToSeq(_)
SetToSeq(S) ==
  IF S = {} THEN <<>>
  ELSE LET m == CHOOSE x \in S : \A y \in S : x <= y
       IN  <<m>> \o SetToSeq(S \ {m})

InitDb(effective_dates) ==
  LET effs == SetToSeq(effective_dates)
      n == Len(DEFAULT_SHIFT_TYPES)
      nv == Len(effs)
  IN  [templates |-> {[template_id |-> 1, owner_user_id |-> "u1",
                       name |-> DEFAULT_TEMPLATE_NAME, deleted_at |-> FALSE]},
       versions |-> {[template_version_id |-> 1 + n + i, template_id |-> 1,
                      version_no |-> i, effective_from |-> effs[i]]
                     : i \in 1..nv},
       shift_types |-> {[shift_type_id |-> 1 + i, template_id |-> 1,
                         code |-> DEFAULT_SHIFT_TYPES[i].code,
                         deleted_at |-> FALSE] : i \in 1..n},
       schedules |-> IF nv = 0 THEN {}
                     ELSE {[schedule_id |-> 1 + n + nv + i,
                            shift_type_id |-> 1 + i,
                            template_version_id |-> 2 + n,
                            start_time |-> DEFAULT_SHIFT_TYPES[i].start_time,
                            end_time |-> DEFAULT_SHIFT_TYPES[i].end_time,
                            crosses_midnight |-> DEFAULT_SHIFT_TYPES[i].crosses_midnight,
                            duration_minutes |-> DEFAULT_SHIFT_TYPES[i].duration_minutes]
                           : i \in 1..n},
       work_shifts |-> {},
       refresh_tokens |-> {},
       next_id |-> 2 + n + nv + (IF nv = 0 THEN 0 ELSE n)]

\* the requests that run side by side, and none of them in flight
Procs == {"p1", "p2"}

NoCalls == [p \in Procs |-> [pc |-> "idle"]]

\* no ensureDefaultTemplate call is between its check and its create
NoLogins == [user_id \in Users |-> 0]

NoCall == [op |-> "none", user_id |-> "<null>", args |-> NoOut,
           err |-> "OK", out |-> NoOut]

\* Earlier history of the store: nothing; a work shift of u1 on SeedDate;
\* that work shift soft-deleted again; or a work shift of u1 on SeedDate
\* that dates from an earlier template of u1, soft-deleted since.
Seeds == {"fresh", "shift", "deleted", "retired"}

SeedDate == MaxDate - 1

Retired(d) ==
  [d EXCEPT
     !.templates = @ \cup
        {[template_id |-> d.next_id, owner_user_id |-> "u1",
          name |-> DEFAULT_TEMPLATE_NAME, deleted_at |-> TRUE]},
     !.versions = @ \cup
        {[template_version_id |-> d.next_id + 1, template_id |-> d.next_id,
          version_no |-> 1, effective_from |-> 1]},
     !.shift_types = @ \cup
        {[shift_type_id |-> d.next_id + 2, template_id |-> d.next_id,
          code |-> DEFAULT_SHIFT_TYPES[1].code, deleted_at |-> FALSE]},
     !.schedules = @ \cup
        {[schedule_id |-> d.next_id + 3,
          shift_type_id |-> d.next_id + 2,
          template_version_id |-> d.next_id + 1,
          start_time |-> DEFAULT_SHIFT_TYPES[1].start_time,
          end_time |-> DEFAULT_SHIFT_TYPES[1].end_time,
          crosses_midnight |-> DEFAULT_SHIFT_TYPES[1].crosses_midnight,
          duration_minutes |-> DEFAULT_SHIFT_TYPES[1].duration_minutes]},
     !.work_shifts = @ \cup
        {[work_shift_id |-> d.next_id + 4, owner_user_id |-> "u1",
          work_date |-> SeedDate, schedule_id |-> d.next_id + 3,
          note |-> NoteNull, created_by_user_id |-> "u1",
          deleted_at |-> FALSE, deleted_by_user_id |-> "<null>"]},
     !.next_id = @ + 5]

Seeded(d, seed) ==
  LET up == CHOOSE r \in upsertWorkShift(d, ServerUtcOffset, "u1", SeedDate,
                                         "D", "a") : TRUE
      del == CHOOSE r \in deleteWorkShift(up.db, "u1",
                            IF up.err = "OK" THEN up.out.work_shift_id ELSE 0) : TRUE
  IN  CASE seed = "fresh" -> d
        [] seed = "shift" -> up.db
        [] seed = "deleted" -> del.db
        [] seed = "retired" -> Retired(d)

Init ==
  /\ \E effective_dates \in SUBSET Dates, seed \in Seeds :
       db = Seeded(InitDb(effective_dates), seed)
  /\ prev = db
  /\ last = NoCall
  /\ nops = 0
  /\ pending = NoLogins
  /\ calls = NoCalls

(***************************************************************************)
(* Requests the callers send                                               *)
(***************************************************************************)
InCodes == {"D", "X"}
InNotes == {"", "a"}
InTimes == {<<TimeUndef, TimeUndef>>, <<TimeNull, TimeNull>>,
            <<(<<22, 30, 0>>), (<<7, 0, 0>>)>>,
            <<(<<7, 0, 0>>), TimeNull>>}

BatchEntry == [work_date : Dates, shift_type_code : InCodes, note : {"b"}]

\* non-empty lists (the controller rejects an empty one) of at most MaxBatch
\* entries, dates in non-decreasing order
BatchLists ==
  UNION {{ws \in [1..n -> BatchEntry] :
            \A i \in 1..(n - 1) : ws[i].work_date <= ws[i + 1].work_date}
         : n \in 1..MaxBatch}

\* identifiers a caller can name: those of rows, and one of no row
WorkShiftIds == {w.work_shift_id : w \in db.work_shifts} \cup {0}
ShiftTypeIds ==
  {st.shift_type_id : st \in {x \in db.shift_types : x.code \in InCodes}}
     \cup {0}

(***************************************************************************)
(* Actions: one per service call                                           *)
(***************************************************************************)
Call(op, user_id, args, r) ==
  /\ nops' = nops + 1
  /\ prev' = db
  /\ db' = r.db
  /\ last' = [op |-> op, user_id |-> user_id, args |-> args,
              err |-> r.err, out |-> r.out]
  /\ UNCHANGED <<pending, calls>>

UpsertWorkShift ==
  /\ nops < MaxOps
  /\ \E user_id \in Users, work_date \in Dates, code \in InCodes, note \in InNotes :
    \E r \in upsertWorkShift(db, ServerUtcOffset, user_id, work_date, code, note) :
      Call("upsertWorkShift", user_id,
           [work_date |-> work_date, shift_type_code |-> code, note |-> note], r)

UpdateWorkShift ==
  /\ nops < MaxOps
  /\ \E user_id \in Users, work_shift_id \in WorkShiftIds,
     code \in {CodeUndef, "D"}, note \in {NoteUndef, NoteNull} :
    \E r \in updateWorkShift(db, user_id, work_shift_id, code, note) :
      Call("updateWorkShift", user_id,
           [work_shift_id |-> work_shift_id, shift_type_code |-> code,
            note |-> note], r)

DeleteWorkShift ==
  /\ nops < MaxOps
  /\ \E user_id \in Users, work_shift_id \in WorkShiftIds :
    \E r \in deleteWorkShift(db, user_id, work_shift_id) :
      Call("deleteWorkShift", user_id, [work_shift_id |-> work_shift_id], r)

BatchUpsertWorkShifts ==
  /\ nops < MaxOps
  /\ \E user_id \in Users, work_shifts \in BatchLists :
    \E r \in batchUpsertWorkShifts(db, ServerUtcOffset, user_id, work_shifts) :
      Call("batchUpsertWorkShifts", user_id, [work_shifts |-> work_shifts], r)

EnsureDefaultTemplate ==
  /\ nops < MaxOps
  /\ \E user_id \in Users, today \in Dates :
    \E r \in ensureDefaultTemplate(db, ServerUtcOffset, user_id,
                                   NewDate(today) - ServerUtcOffset) :
      Call("ensureDefaultTemplate", user_id, [today |-> today], r)

CreateShiftType ==
  /\ nops < MaxOps
  /\ \E user_id \in Users, code \in InCodes,
     times \in InTimes \ {<<TimeUndef, TimeUndef>>} :
    \E r \in createShiftType(db, user_id,
               [code |-> code, start_time |-> times[1], end_time |-> times[2]]) :
      Call("createShiftType", user_id,
           [code |-> code, start_time |-> times[1], end_time |-> times[2]], r)

UpdateShiftType ==
  /\ nops < MaxOps
  /\ \E user_id \in Users, shift_type_id \in ShiftTypeIds,
     code \in {CodeUndef, "X"}, times \in InTimes :
    \E r \in updateShiftType(db, user_id, shift_type_id,
               [code |-> code, start_time |-> times[1], end_time |-> times[2]]) :
      Call("updateShiftType", user_id,
           [shift_type_id |-> shift_type_id, code |-> code,
            start_time |-> times[1], end_time |-> times[2]], r)

DeleteShiftType ==
  /\ nops < MaxOps
  /\ \E user_id \in Users, shift_type_id \in ShiftTypeIds :
    \E r \in deleteShiftType(db, user_id, shift_type_id) :
      Call("deleteShiftType", user_id, [shift_type_id |-> shift_type_id], r)

Next ==
  \/ UpsertWorkShift
  \/ UpdateWorkShift
  \/ DeleteWorkShift
  \/ BatchUpsertWorkShifts
  \/ EnsureDefaultTemplate
  \/ CreateShiftType
  \/ UpdateShiftType
  \/ DeleteShiftType

Spec == Init /\ [][Next]_vars

(***************************************************************************)
(* The same services on a store in which the template of u1 is one shift   *)
(* type short of its limit, or at it, and holds a soft-deleted shift type: *)
(* the shift types beyond the default ones come from createShiftType, the  *)
(* soft-deleted one from deleteShiftType.                                  *)
(***************************************************************************)
RECURSIVE WithShiftTypes(_, _)
WithShiftTypes(d, n) ==
  IF n = 0 THEN d
  ELSE LET r == CHOOSE r \in createShiftType(WithShiftTypes(d, n - 1), "u1",
                       [code |-> "X", start_time |-> TimeNull,
                        end_time |-> TimeNull]) : TRUE
       IN  r.db

WithDeletedShiftType(d) ==
  LET created == CHOOSE r \in createShiftType(d, "u1",
                       [code |-> "X", start_time |-> TimeNull,
                        end_time |-> TimeNull]) : TRUE
      deleted == CHOOSE r \in deleteShiftType(created.db, "u1",
                                              created.out.shift_type_id) : TRUE
  IN  deleted.db

InitCap ==
  /\ \E live \in {MAX_SHIFT_TYPES_PER_TEMPLATE - 1, MAX_SHIFT_TYPES_PER_TEMPLATE},
        seed \in {"fresh", "shift"} :
       db = Seeded(WithShiftTypes(WithDeletedShiftType(InitDb({1})),
                                  live - Len(DEFAULT_SHIFT_TYPES)), seed)
  /\ prev = db
  /\ last = NoCall
  /\ nops = 0
  /\ pending = NoLogins
  /\ calls = NoCalls

SpecCap == InitCap /\ [][Next]_vars

(***************************************************************************)
(* calculateTimeInfo on its own: the two times of day are drawn in the     *)
(* initial state ("HH:mm:00" as <<HH, mm, 0>>), and the one step applies   *)
(* the function to them.                                                   *)
(***************************************************************************)
TimesOfDay == {<<h, m, 0>> : h \in 0..23, m \in 0..59}

InitTime ==
  /\ db = InitDb({1})
  /\ prev = db
  /\ nops = 0
  /\ pending = NoLogins
  /\ calls = NoCalls
  /\ \E start_time \in TimesOfDay, end_time \in TimesOfDay :
       last = [NoCall EXCEPT !.args = [start_time |-> start_time,
                                       end_time |-> end_time]]

CalculateTimeInfo ==
  /\ last.op = "none"
  /\ last' = [last EXCEPT !.op = "calculateTimeInfo",
                          !.out = calculateTimeInfo(last.args.start_time,
                                                    last.args.end_time)]
  /\ nops' = nops + 1
  /\ UNCHANGED <<db, prev, pending, calls>>

NextTime == CalculateTimeInfo

SpecTime == InitTime /\ [][NextTime]_vars

(***************************************************************************)
(* ensureDefaultTemplate step by step.  The function awaits                *)
(* hasDefaultTemplate and only then calls createDefaultShiftTemplate, so   *)
(* other requests run between the two; pending[user_id] counts the calls   *)
(* of the user that have read has_template = false and have not created    *)
(* yet.  updateTemplateName requests of the users run in between.          *)
(***************************************************************************)
TemplateNames == {DEFAULT_TEMPLATE_NAME, "X"}

InitLogin ==
  /\ db = InitDb({1})
  /\ prev = db
  /\ last = NoCall
  /\ nops = 0
  /\ pending = NoLogins
  /\ calls = NoCalls

Step(op, user_id, args, r) ==
  /\ nops' = nops + 1
  /\ UNCHANGED calls
  /\ prev' = db
  /\ db' = r.db
  /\ last' = [op |-> op, user_id |-> user_id, args |-> args,
              err |-> r.err, out |-> r.out]

\* const has_template = await hasDefaultTemplate(user_id)
HasDefaultTemplate ==
  /\ nops < MaxSteps
  /\ \E user_id \in Users :
       LET has_template == hasDefaultTemplate(db, user_id)
       IN  /\ Step("hasDefaultTemplate", user_id, NoOut,
                   Ok(db, [has_template |-> has_template]))
           /\ pending' = IF has_template THEN pending
                         ELSE [pending EXCEPT ![user_id] = @ + 1]

\* if (!has_template) await createDefaultShiftTemplate(user_id)
CreateDefaultShiftTemplate ==
  /\ nops < MaxSteps
  /\ \E user_id \in Users, today \in Dates :
       /\ pending[user_id] > 0
       /\ Step("createDefaultShiftTemplate", user_id, [today |-> today],
               CreateDefaultShiftTemplateNow(db, user_id, today))
       /\ pending' = [pending EXCEPT ![user_id] = @ - 1]

UpdateTemplateName ==
  /\ nops < MaxSteps
  /\ \E user_id \in Users, name \in TemplateNames :
       \E r \in updateTemplateName(db, user_id, name) :
         /\ Step("updateTemplateName", user_id, [name |-> name], r)
         /\ UNCHANGED pending

NextLogin ==
  \/ HasDefaultTemplate
  \/ CreateDefaultShiftTemplate
  \/ UpdateTemplateName

SpecLogin == InitLogin /\ [][NextLogin]_vars

(***************************************************************************)
(* batchUpsertWorkShifts step by step, two requests side by side.          *)
(* The store is PostgreSQL at READ COMMITTED: db holds what is committed;  *)
(* the rows a transaction has written and not committed are its            *)
(* own_shifts and own_schedules, which only its own statements see.  An    *)
(* upsert waits while another open transaction holds an uncommitted row    *)
(* with the same (owner_user_id, work_date); two transactions that wait    *)
(* for each other are a deadlock, which the store ends by failing the      *)
(* statement of one of them.  Identifiers come from d.next_id, which is    *)
(* never rolled back.                                                      *)
(***************************************************************************)
ConcurrentDates == {SeedDate, SeedDate + 1}

\* the lists request p may send; its entries carry a note of its own
RequestLists(p) ==
  UNION {[1..n -> [work_date : ConcurrentDates, shift_type_code : InCodes,
                   note : {p}]]
         : n \in 1..MaxBatch}

ShiftKey(w) == <<w.owner_user_id, w.work_date>>

\* what the statements of the transaction of call c read
TxView(d, c) ==
  [d EXCEPT
     !.work_shifts =
        {w \in @ : ShiftKey(w) \notin {ShiftKey(o) : o \in c.own_shifts}}
          \cup c.own_shifts,
     !.schedules = @ \cup c.own_schedules]

\* one pass of the for loop: resolve the shift type, the version of the
\* date and the schedule, then WorkShift.upsert
UpsertEntry(d, offset, user_id, template, ws) ==
  LET shift_types == FindShiftTypeOfTemplate(d, ws.shift_type_code,
                                             template.template_id)
      versions == ResolveVersionForDate(d, template.template_id,
                                        ws.work_date, offset)
  IN  IF shift_types = {}
      THEN {Fail(d, "INVALID_SHIFT_TYPE",
                 [invalid_code |-> ws.shift_type_code,
                  work_date |-> ws.work_date])}
      ELSE IF versions = {}
      THEN {Fail(d, "TEMPLATE_VERSION_NOT_FOUND", [work_date |-> ws.work_date])}
      ELSE UNION {
        { LET up == WorkShiftUpsert(sc.db, user_id,
                                    DateOnly(NewDate(ws.work_date), offset),
                                    sc.schedule_id, NoteOrNull(ws.note))
          IN  Ok(up.db, [work_shift_id |-> up.work_shift_id])
          : sc \in FindOrCreateSchedule(d, shift_type.shift_type_id,
                                        valid_version.template_version_id) }
        : shift_type \in shift_types, valid_version \in versions }

\* Variant of ShouldRollback: the catch block rolls back whatever happened
AlwaysRollback(is_committed) == TRUE

\* if (!is_committed) await transaction.rollback()
ShouldRollback(is_committed) == ~is_committed

\* Stores of u1 the requests start from: the default template alone; with a
\* shift type "X" that is soft-deleted; with a live "X" while u2 has the
\* default template (and no "X") as well
BatchStores ==
  {InitDb({1}),
   WithDeletedShiftType(InitDb({1})),
   createDefaultShiftTemplate(WithShiftTypes(InitDb({1}), 1), "u2", 1)}

InitBatch ==
  /\ \E d \in BatchStores, seed \in {"fresh", "shift", "deleted"} :
       db = Seeded(d, seed)
  /\ prev = db
  /\ last = NoCall
  /\ nops = 0
  /\ pending = NoLogins
  /\ calls = NoCalls

Thrown(c, err, out) == [c EXCEPT !.pc = "catch", !.err = err, !.out = out]

\* steps 1 to 3: the duplicate check, the template, sequelize.transaction()
BatchBegin(p) ==
  /\ calls[p].pc = "idle"
  /\ \E user_id \in Users, work_shifts \in RequestLists(p) :
       LET duplicate_dates == DuplicateDates(work_shifts)
           templates == FindTemplate(db, user_id)
           c == [pc |-> "loop", user_id |-> user_id, work_shifts |-> work_shifts,
                 template |-> NoOut, i |-> 1, saved |-> {},
                 own_shifts |-> {}, own_schedules |-> {}, before |-> db,
                 opened |-> FALSE, finished |-> "none", is_committed |-> FALSE,
                 commits |-> 0, rollbacks |-> 0, committed_at |-> 0,
                 failed_at |-> "none", err |-> "OK", out |-> NoOut]
       IN  IF duplicate_dates # {}
           THEN calls' = [calls EXCEPT ![p] =
                  [c EXCEPT !.pc = "thrown", !.err = "DUPLICATE_DATE",
                            !.out = [duplicate_dates |-> duplicate_dates]]]
           ELSE IF templates = {}
           THEN calls' = [calls EXCEPT ![p] =
                  [c EXCEPT !.pc = "thrown", !.err = "TEMPLATE_NOT_FOUND"]]
           ELSE \E template \in templates :
                  calls' = [calls EXCEPT ![p] =
                    [c EXCEPT !.template = template, !.opened = TRUE]]
  /\ UNCHANGED <<db, prev, last, nops, pending>>

\* the (owner_user_id, work_date) of the entry the call is at
NextKey(c) ==
  <<c.user_id,
    DateOnly(NewDate(c.work_shifts[c.i].work_date), ServerUtcOffset)>>

InLoop(c) == c.pc = "loop" /\ c.i <= Len(c.work_shifts)

\* another open transaction holds an uncommitted row with the key
HeldBy(q, key) ==
  /\ calls[q].pc # "idle"
  /\ calls[q].opened
  /\ calls[q].finished = "none"
  /\ key \in {ShiftKey(o) : o \in calls[q].own_shifts}

Waits(p, q) == p # q /\ InLoop(calls[p]) /\ HeldBy(q, NextKey(calls[p]))

\* step 4, one entry
BatchEntryStep(p) ==
  /\ InLoop(calls[p])
  /\ LET c == calls[p]
         key == NextKey(c)
         keys == {ShiftKey(o) : o \in c.own_shifts} \cup {key}
     IN  \E r \in UpsertEntry(TxView(db, c), ServerUtcOffset, c.user_id,
                              c.template, c.work_shifts[c.i]) :
           IF r.err # "OK"
           THEN /\ calls' = [calls EXCEPT ![p] =
                       [Thrown(c, r.err, r.out) EXCEPT !.failed_at = "entry"]]
                /\ db' = db
           ELSE /\ \A q \in Procs : ~Waits(p, q)
                /\ calls' = [calls EXCEPT ![p] =
                       [c EXCEPT
                          !.i = @ + 1,
                          !.saved = @ \cup {r.out.work_shift_id},
                          !.own_shifts =
                             {w \in r.db.work_shifts : ShiftKey(w) \in keys},
                          !.own_schedules = r.db.schedules \ db.schedules]]
                /\ db' = [db EXCEPT !.next_id = r.db.next_id]
  /\ UNCHANGED <<prev, last, nops, pending>>

\* the upsert of p waits for q and q waits for p: the store fails the
\* statement of p ("deadlock detected")
BatchDeadlock(p) ==
  /\ \E q \in Procs : Waits(p, q) /\ Waits(q, p)
  /\ \E r \in UpsertEntry(TxView(db, calls[p]), ServerUtcOffset,
                          calls[p].user_id, calls[p].template,
                          calls[p].work_shifts[calls[p].i]) : r.err = "OK"
  /\ calls' = [calls EXCEPT ![p] =
         [Thrown(calls[p], "SequelizeDatabaseError", NoOut)
            EXCEPT !.failed_at = "entry"]]
  /\ UNCHANGED <<db, prev, last, nops, pending>>

\* step 5: await transaction.commit(); is_committed = true.  A commit that
\* fails leaves the transaction finished and its writes undone.
BatchCommit(p) ==
  /\ calls[p].pc = "loop"
  /\ calls[p].i > Len(calls[p].work_shifts)
  /\ LET c == [calls[p] EXCEPT !.finished = "commit", !.commits = @ + 1,
                               !.own_shifts = {}, !.own_schedules = {}]
     IN  \/ /\ db' = TxView(db, calls[p])
            /\ calls' = [calls EXCEPT ![p] =
                 [c EXCEPT !.pc = "reread", !.is_committed = TRUE,
                           !.committed_at =
                              1 + Cardinality({q \in Procs :
                                    /\ calls[q].pc # "idle"
                                    /\ calls[q].is_committed})]]
         \/ /\ db' = db
            /\ calls' = [calls EXCEPT ![p] =
                 [Thrown(c, "SequelizeConnectionError", NoOut)
                    EXCEPT !.failed_at = "commit"]]
  /\ UNCHANGED <<prev, last, nops, pending>>

\* steps 6 and 7: WorkShift.findAll of the saved ids, outside the transaction
BatchReread(p) ==
  /\ calls[p].pc = "reread"
  /\ \/ calls' = [calls EXCEPT ![p] =
          [@ EXCEPT !.pc = "returned",
                    !.out = [work_shifts |->
                      WorkShiftDetails(db, {w \in db.work_shifts :
                         w.work_shift_id \in calls[p].saved})]]]
     \/ calls' = [calls EXCEPT ![p] =
          [Thrown(@, "SequelizeConnectionError", NoOut)
             EXCEPT !.failed_at = "reread"]]
  /\ UNCHANGED <<db, prev, last, nops, pending>>

\* the catch block.  transaction.rollback() on a transaction that commit()
\* has finished throws, and that error is the one the caller gets.
BatchCatch(p) ==
  /\ calls[p].pc = "catch"
  /\ LET c == calls[p]
     IN  IF ShouldRollback(c.is_committed)
         THEN IF c.finished # "none"
              THEN calls' = [calls EXCEPT ![p] =
                     [c EXCEPT !.pc = "thrown", !.rollbacks = @ + 1,
                               !.err = "Error", !.out = NoOut]]
              ELSE calls' = [calls EXCEPT ![p] =
                     [c EXCEPT !.pc = "thrown", !.rollbacks = @ + 1,
                               !.finished = "rollback",
                               !.own_shifts = {}, !.own_schedules = {}]]
         ELSE calls' = [calls EXCEPT ![p] = [c EXCEPT !.pc = "thrown"]]
  /\ UNCHANGED <<db, prev, last, nops, pending>>

NextBatch ==
  \/ \E p \in Procs : BatchBegin(p)
  \/ \E p \in Procs : BatchEntryStep(p)
  \/ \E p \in Procs : BatchDeadlock(p)
  \/ \E p \in Procs : BatchCommit(p)
  \/ \E p \in Procs : BatchReread(p)
  \/ \E p \in Procs : BatchCatch(p)

SpecBatch == InitBatch /\ [][NextBatch]_vars

(***************************************************************************)
(* createShiftType step by step, two requests side by side.  Each runs in  *)
(* its own transaction at READ COMMITTED: its count sees the committed     *)
(* rows only, and nothing makes the other request wait.  The first step is *)
(* the template lookup and the count, the second the rest of the callback  *)
(* and the commit.                                                         *)
(***************************************************************************)
InitCreate ==
  /\ \E live \in {MAX_SHIFT_TYPES_PER_TEMPLATE - 2,
                  MAX_SHIFT_TYPES_PER_TEMPLATE - 1,
                  MAX_SHIFT_TYPES_PER_TEMPLATE} :
       db = WithShiftTypes(InitDb({1}), live - Len(DEFAULT_SHIFT_TYPES))
  /\ prev = db
  /\ last = NoCall
  /\ nops = 0
  /\ pending = NoLogins
  /\ calls = NoCalls

\* steps 1 and 2: the template and current_count
CreateCount(p) ==
  /\ calls[p].pc = "idle"
  /\ \E user_id \in Users, code \in InCodes,
        times \in InTimes \ {<<TimeUndef, TimeUndef>>} :
       LET templates == FindTemplate(db, user_id)
           c == [pc |-> "counted", user_id |-> user_id,
                 data |-> [code |-> code, start_time |-> times[1],
                           end_time |-> times[2]],
                 template |-> NoOut, current_count |-> 0,
                 err |-> "OK", out |-> NoOut]
       IN  IF templates = {}
           THEN calls' = [calls EXCEPT ![p] =
                  [c EXCEPT !.pc = "thrown", !.err = "TEMPLATE_NOT_FOUND"]]
           ELSE \E template \in templates :
                  LET current_count ==
                        Cardinality(LiveShiftTypes(db, template.template_id))
                  IN  calls' = [calls EXCEPT ![p] =
                        [c EXCEPT
                           !.template = template,
                           !.current_count = current_count,
                           !.pc = IF current_count >= MAX_SHIFT_TYPES_PER_TEMPLATE
                                  THEN "thrown" ELSE "counted",
                           !.err = IF current_count >= MAX_SHIFT_TYPES_PER_TEMPLATE
                                   THEN "MAX_SHIFT_TYPES_EXCEEDED" ELSE "OK"]]
  /\ UNCHANGED <<db, prev, last, nops, pending>>

\* steps 4 and 5 and the commit: the shift type and its schedule in the
\* current version
InsertShiftType(d, template, data) ==
  LET shift_type_id == d.next_id
      d1 == [d EXCEPT
               !.shift_types = @ \cup
                  {[shift_type_id |-> shift_type_id,
                    template_id |-> template.template_id,
                    code |-> data.code, deleted_at |-> FALSE]},
               !.next_id = @ + 1]
      timed == Truthy(data.start_time) /\ Truthy(data.end_time)
      start_time == IF timed THEN data.start_time ELSE TimeNull
      end_time == IF timed THEN data.end_time ELSE TimeNull
      time_info == calculateTimeInfo(start_time, end_time)
      versions == getCurrentVersion(d1, template.template_id)
  IN  IF versions = {} THEN {Fail(d, "TEMPLATE_NOT_FOUND", NoOut)}
      ELSE { Ok([d1 EXCEPT
                   !.schedules = @ \cup
                      {[schedule_id |-> d1.next_id,
                        shift_type_id |-> shift_type_id,
                        template_version_id |->
                           current_version.template_version_id,
                        start_time |-> start_time,
                        end_time |-> end_time,
                        crosses_midnight |-> time_info.crosses_midnight,
                        duration_minutes |-> time_info.duration_minutes]},
                   !.next_id = @ + 1],
                [shift_type_id |-> shift_type_id])
             : current_version \in versions }

CreateInsert(p) ==
  /\ calls[p].pc = "counted"
  /\ \E r \in InsertShiftType(db, calls[p].template, calls[p].data) :
       /\ db' = r.db
       /\ calls' = [calls EXCEPT ![p] =
            [@ EXCEPT !.pc = IF r.err = "OK" THEN "returned" ELSE "thrown",
                      !.err = r.err, !.out = r.out]]
  /\ UNCHANGED <<prev, last, nops, pending>>

NextCreate ==
  \/ \E p \in Procs : CreateCount(p)
  \/ \E p \in Procs : CreateInsert(p)

SpecCreate == InitCreate /\ [][NextCreate]_vars

(***************************************************************************)
(* scheduleController: the catch blocks of batchUpsertWorkShifts and       *)
(* createShiftType, which turn the error a service threw into the          *)
(* response.  An error is its name and its message; the errors the         *)
(* services construct have the name "Error" and the code as message, the   *)
(* errors of the store have a Sequelize name.                              *)
(***************************************************************************)
StoreErrors ==
  {[name |-> "SequelizeUniqueConstraintError", message |-> "Validation error"],
   [name |-> "SequelizeForeignKeyConstraintError",
    message |-> "violates foreign key constraint"],
   [name |-> "SequelizeDatabaseError", message |-> "deadlock detected"],
   [name |-> "SequelizeConnectionError", message |-> "Connection terminated"]}

DomainError(message) == [name |-> "Error", message |-> message]

BatchErrors ==
  {DomainError(m) : m \in {"DUPLICATE_DATE", "INVALID_SHIFT_TYPE",
                           "TEMPLATE_NOT_FOUND", "TEMPLATE_VERSION_NOT_FOUND"}}
    \cup StoreErrors

CreateShiftTypeErrors ==
  {DomainError(m) : m \in {"TEMPLATE_NOT_FOUND", "MAX_SHIFT_TYPES_EXCEEDED"}}
    \cup StoreErrors

Response(status, code) == [status |-> status, code |-> code]

\* catch block of the batchUpsertWorkShifts controller
BatchUpsertErrorResponse(error) ==
  IF error.message = "DUPLICATE_DATE" THEN Response(400, "DUPLICATE_DATE")
  ELSE IF error.message = "INVALID_SHIFT_TYPE"
  THEN Response(400, "INVALID_SHIFT_TYPE")
  ELSE IF error.message = "TEMPLATE_NOT_FOUND"
  THEN Response(404, "TEMPLATE_NOT_FOUND")
  ELSE IF error.message = "SCHEDULE_NOT_FOUND"
  THEN Response(404, "SCHEDULE_NOT_FOUND")
  ELSE IF error.message = "TEMPLATE_VERSION_NOT_FOUND"
  THEN Response(404, "TEMPLATE_VERSION_NOT_FOUND")
  ELSE IF error.message = "NO_VALID_VERSION_FOR_DATE"
  THEN Response(400, "NO_VALID_VERSION_FOR_DATE")
  ELSE IF error.name = "SequelizeUniqueConstraintError"
  THEN Response(400, "VALIDATION_ERROR")
  ELSE Response(500, "INTERNAL_SERVER_ERROR")

\* catch block of the createShiftType controller
CreateShiftTypeErrorResponse(error) ==
  IF error.message = "TEMPLATE_NOT_FOUND" THEN Response(404, "TEMPLATE_NOT_FOUND")
  ELSE IF error.message = "MAX_SHIFT_TYPES_EXCEEDED"
  THEN Response(400, "MAX_SHIFT_TYPES_EXCEEDED")
  ELSE IF error.name = "SequelizeUniqueConstraintError"
  THEN Response(400, "DUPLICATE_CODE")
  ELSE Response(500, "INTERNAL_SERVER_ERROR")

\* a request whose service call has thrown
InitError ==
  /\ db = InitDb({1})
  /\ prev = db
  /\ nops = 0
  /\ pending = NoLogins
  /\ calls = NoCalls
  /\ \E user_id \in Users :
       \/ \E work_shifts \in BatchLists, error \in BatchErrors :
            last = [NoCall EXCEPT
                      !.user_id = user_id,
                      !.args = [controller |-> "batchUpsertWorkShifts",
                                body |-> [work_shifts |-> work_shifts],
                                error |-> error]]
       \/ \E code \in InCodes, error \in CreateShiftTypeErrors :
            last = [NoCall EXCEPT
                      !.user_id = user_id,
                      !.args = [controller |-> "createShiftType",
                                body |-> [code |-> code],
                                error |-> error]]

Respond(controller, response) ==
  /\ last.op = "none"
  /\ last.args.controller = controller
  /\ last' = [last EXCEPT !.op = controller, !.err = last.args.error.message,
                          !.out = response]
  /\ nops' = nops + 1
  /\ UNCHANGED <<db, prev, pending, calls>>

BatchUpsertCatch ==
  Respond("batchUpsertWorkShifts", BatchUpsertErrorResponse(last.args.error))

CreateShiftTypeCatch ==
  Respond("createShiftType", CreateShiftTypeErrorResponse(last.args.error))

NextError ==
  \/ BatchUpsertCatch
  \/ CreateShiftTypeCatch

SpecError == InitError /\ [][NextError]_vars

(***************************************************************************)
(* Refresh tokens: rotateRefreshToken step by step, two requests side by   *)
(* side, next to revokeRefreshToken and revokeAllUserTokens.                *)
(*                                                                         *)
(* A refresh token is the JWT that jwt.sign makes of the payload            *)
(* {user_id, email}, the second of issue (iat) and the secret: there is no  *)
(* jti, so two tokens signed for one user in one second are the same        *)
(* string.  The seconds modelled lie within the 30 days a token lives.      *)
(***************************************************************************)
Seconds == 1..MaxSecond

Jwt(user_id, iat, secret) == [user_id |-> user_id, iat |-> iat, secret |-> secret]

JWT_REFRESH_SECRET == "refresh_secret"

\* the strings a client may present: every token the server can have
\* issued, and tokens signed with another secret
PresentedTokens ==
  {Jwt(user_id, iat, secret) : user_id \in Users, iat \in Seconds,
                               secret \in {JWT_REFRESH_SECRET, "forged"}}

hashToken(token) == <<"sha256", token>>

NoPayload == [user_id |-> "<null>"]

verifyRefreshTokenJwt(token) ==
  IF token.secret = JWT_REFRESH_SECRET THEN [user_id |-> token.user_id]
  ELSE NoPayload

\* RefreshToken.isValid at an instant before expires_at
isValid(stored_token) == ~stored_token.revoked_at

\* findOne({token_hash, revoked_at: null}) without the later isValid test
FindStoredTokenAnyState(d, token) ==
  {t \in d.refresh_tokens : t.token_hash = hashToken(token)}

\* the rows findOne({token_hash, revoked_at: null}) may return
FindStoredToken(d, token) ==
  {t \in d.refresh_tokens : t.token_hash = hashToken(token) /\ ~t.revoked_at}

findValidRefreshToken(d, token) ==
  {t \in FindStoredToken(d, token) : isValid(t)}

\* stored_token.revoke(): save() writes revoked_at to the row of that key
revoke(d, token_id) ==
  [d EXCEPT !.refresh_tokens =
     {IF t.token_id = token_id THEN [t EXCEPT !.revoked_at = TRUE] ELSE t
      : t \in d.refresh_tokens}]

\* generateTokens in second iat: the unique index on token_hash among the
\* rows with revoked_at null refuses a second live row of one hash
generateTokens(d, user_id, iat) ==
  LET refresh_token == Jwt(user_id, iat, JWT_REFRESH_SECRET)
  IN  IF FindStoredToken(d, refresh_token) # {}
      THEN [db |-> d, err |-> "SequelizeUniqueConstraintError",
            out |-> NoOut]
      ELSE [db |-> [d EXCEPT !.refresh_tokens = @ \cup
                        {[token_id |-> d.next_id, user_id |-> user_id,
                          token_hash |-> hashToken(refresh_token),
                          issued_at |-> iat, revoked_at |-> FALSE]},
                      !.next_id = @ + 1],
            err |-> "OK", out |-> refresh_token]

\* the clock never runs backwards: no second before the latest issue
Now(d) == {s \in Seconds : \A t \in d.refresh_tokens : t.issued_at <= s}

\* u1 has logged in in the first second, on one device or, a second later,
\* on another one too; u2 may have logged in as well
InitToken ==
  /\ \E second_device, other_user \in BOOLEAN :
       LET d1 == generateTokens(InitDb({1}), "u1", 1).db
           d2 == IF second_device THEN generateTokens(d1, "u1", 2).db ELSE d1
           d3 == IF other_user THEN generateTokens(d2, "u2", 1).db ELSE d2
       IN  db = d3
  /\ prev = db
  /\ last = NoCall
  /\ nops = 0
  /\ pending = NoLogins
  /\ calls = NoCalls

\* rotateRefreshToken, steps 1 to 3: verify the JWT, look the token up,
\* load the user (every user of the model exists)
RotateFind(p) ==
  /\ calls[p].pc = "idle"
  /\ \E token \in PresentedTokens :
       LET payload == verifyRefreshTokenJwt(token)
           found == IF payload = NoPayload THEN {}
                    ELSE findValidRefreshToken(db, token)
           call == [pc |-> "returned", old_refresh_token |-> token,
                    user_id |-> payload.user_id, stored_token |-> 0,
                    revoked_before |->
                      \E t \in FindStoredTokenAnyState(db, token) : t.revoked_at,
                    err |-> "OK", out |-> NoOut]
       IN  \/ /\ found = {}
              /\ calls' = [calls EXCEPT ![p] = call]
           \/ \E stored_token \in found :
                calls' = [calls EXCEPT ![p] =
                            [call EXCEPT !.pc = "found",
                                         !.stored_token = stored_token.token_id]]
  /\ UNCHANGED <<db, prev, last, nops, pending>>

\* step 4: await stored_token.revoke()
RotateRevoke(p) ==
  /\ calls[p].pc = "found"
  /\ db' = revoke(db, calls[p].stored_token)
  /\ calls' = [calls EXCEPT ![p].pc = "revoked"]
  /\ UNCHANGED <<prev, last, nops, pending>>

\* step 5: generateTokens, and the return of the new tokens
RotateGenerate(p) ==
  /\ calls[p].pc = "revoked"
  /\ \E iat \in Now(db) :
       LET r == generateTokens(db, calls[p].user_id, iat)
       IN  /\ db' = r.db
           /\ calls' = [calls EXCEPT ![p].pc = IF r.err = "OK" THEN "returned"
                                               ELSE "thrown",
                                     ![p].err = r.err, ![p].out = r.out]
  /\ UNCHANGED <<prev, last, nops, pending>>

\* revokeRefreshToken (logout)
RevokeRefreshToken ==
  /\ \E token \in PresentedTokens :
       LET found == FindStoredToken(db, token)
       IN  \/ /\ found = {}
              /\ last' = [NoCall EXCEPT !.op = "revokeRefreshToken",
                                        !.args = token, !.out = FALSE]
              /\ UNCHANGED db
           \/ \E stored_token \in found :
                /\ db' = revoke(db, stored_token.token_id)
                /\ last' = [NoCall EXCEPT !.op = "revokeRefreshToken",
                                          !.args = token, !.out = TRUE]
  /\ UNCHANGED <<prev, nops, pending, calls>>

\* revokeAllUserTokens (logout of every device)
RevokeAllUserTokens ==
  /\ \E user_id \in Users :
       LET affected == {t \in db.refresh_tokens :
                          t.user_id = user_id /\ ~t.revoked_at}
       IN  /\ db' = [db EXCEPT !.refresh_tokens =
                       {IF t \in affected THEN [t EXCEPT !.revoked_at = TRUE]
                        ELSE t : t \in db.refresh_tokens}]
           /\ last' = [NoCall EXCEPT !.op = "revokeAllUserTokens",
                                     !.user_id = user_id,
                                     !.out = Cardinality(affected)]
  /\ UNCHANGED <<prev, nops, pending, calls>>

NextToken ==
  \/ \E p \in Procs : RotateFind(p)
  \/ \E p \in Procs : RotateRevoke(p)
  \/ \E p \in Procs : RotateGenerate(p)
  \/ RevokeRefreshToken
  \/ RevokeAllUserTokens

SpecToken == InitToken /\ [][NextToken]_vars

(***************************************************************************)
(* Vocabulary of the properties                                            *)
(***************************************************************************)
Called(op) == last.op = op

Returned(op) == last.op = op /\ last.err = "OK"

OwnTemplates(d, user_id) ==
  {t \in d.templates : t.owner_user_id = user_id /\ t.deleted_at = FALSE}

\* the live shift types of the user's own template(s)
OwnLiveShiftTypes(d, user_id) ==
  {st \in d.shift_types :
     /\ st.deleted_at = FALSE
     /\ \E t \in OwnTemplates(d, user_id) : st.template_id = t.template_id}

OwnLiveCodes(d, user_id) == {st.code : st \in OwnLiveShiftTypes(d, user_id)}

VersionsOf(d, user_id) ==
  {v \in d.versions :
     \E t \in OwnTemplates(d, user_id) : v.template_id = t.template_id}

\* the version with the greatest effective_from
CurrentVersionOf(d, user_id) ==
  {v \in VersionsOf(d, user_id) :
     \A w \in VersionsOf(d, user_id) : w.effective_from <= v.effective_from}

\* V(day): greatest effective_from <= day, else greatest effective_from
VersionInForce(d, user_id, day) ==
  LET started == {v \in VersionsOf(d, user_id) : v.effective_from <= day}
  IN  IF started # {}
      THEN {v \in started : \A w \in started : w.effective_from <= v.effective_from}
      ELSE CurrentVersionOf(d, user_id)

RowsOn(d, user_id, day) ==
  {w \in d.work_shifts : w.owner_user_id = user_id /\ w.work_date = day}

ScheduleOf(d, w) == {s \in d.schedules : s.schedule_id = w.schedule_id}

\* the row of (user, day) references a schedule of one of the user's live
\* shift types with the code, in one of the versions
Binds(d, user_id, day, code, versions) ==
  \E w \in RowsOn(d, user_id, day) : \E s \in ScheduleOf(d, w) :
    /\ \E v \in versions : s.template_version_id = v.template_version_id
    /\ \E st \in OwnLiveShiftTypes(d, user_id) :
         st.shift_type_id = s.shift_type_id /\ st.code = code

StoredNote(note) == IF note = "" THEN NoteNull ELSE note

IsDefaultSchedule(s) ==
  /\ s.start_time = TimeNull /\ s.end_time = TimeNull
  /\ s.crosses_midnight = FALSE /\ s.duration_minutes = 0

BatchArg == last.args.work_shifts

(***************************************************************************)
(* C1: a batch in which some entry names a code that is no live shift type *)
(* of the owner's template fails, and the store is exactly as before the   *)
(* call: no work shift written for the entries before it, no lazily        *)
(* created schedule left.                                                  *)
(***************************************************************************)
C1_UnknownCodeRollsBackBatch ==
  (/\ Called("batchUpsertWorkShifts")
   /\ \E k \in 1..Len(BatchArg) :
        BatchArg[k].shift_type_code \notin OwnLiveCodes(prev, last.user_id))
  => (last.err # "OK" /\ db = prev)

\* the second entry is the unknown one and the first, processed before it,
\* had written a work shift and created a schedule
C1_Witness ==
  /\ Called("batchUpsertWorkShifts")
  /\ last.err = "INVALID_SHIFT_TYPE"
  /\ Len(BatchArg) = 2
  /\ BatchArg[1].shift_type_code \in OwnLiveCodes(prev, last.user_id)
  /\ BatchArg[2].shift_type_code \notin OwnLiveCodes(prev, last.user_id)
  /\ RowsOn(prev, last.user_id, BatchArg[1].work_date) = {}
  /\ \A st \in OwnLiveShiftTypes(prev, last.user_id) :
       \A v \in VersionInForce(prev, last.user_id, BatchArg[1].work_date) :
         st.code = BatchArg[1].shift_type_code
           => FindSchedule(prev, st.shift_type_id, v.template_version_id) = {}
  /\ VersionInForce(prev, last.user_id, BatchArg[1].work_date) # {}
  /\ db = prev

(***************************************************************************)
(* C2: a batch fails with DUPLICATE_DATE exactly when some work_date       *)
(* occurs in two or more entries; the error carries exactly those dates,   *)
(* it comes before the template lookup and nothing is written.             *)
(***************************************************************************)
RepeatedDates(work_shifts) ==
  {day \in {work_shifts[i].work_date : i \in 1..Len(work_shifts)} :
     Cardinality({i \in 1..Len(work_shifts) : work_shifts[i].work_date = day}) >= 2}

C3_BatchResolvesPerDate ==
  Returned("batchUpsertWorkShifts") =>
    /\ \A i \in 1..Len(BatchArg) :
         Binds(db, last.user_id, BatchArg[i].work_date,
               BatchArg[i].shift_type_code,
               VersionInForce(prev, last.user_id, BatchArg[i].work_date))
    /\ \A i, j \in 1..Len(BatchArg) :
         (/\ VersionInForce(prev, last.user_id, BatchArg[i].work_date)
               # VersionInForce(prev, last.user_id, BatchArg[j].work_date)
          /\ BatchArg[i].shift_type_code = BatchArg[j].shift_type_code)
         => \A wi \in RowsOn(db, last.user_id, BatchArg[i].work_date),
               wj \in RowsOn(db, last.user_id, BatchArg[j].work_date) :
              wi.schedule_id # wj.schedule_id

\* one code on both sides of an effective_from boundary
C3_Witness ==
  /\ Returned("batchUpsertWorkShifts")
  /\ Len(BatchArg) = 2
  /\ BatchArg[1].shift_type_code = BatchArg[2].shift_type_code
  /\ \E v1 \in VersionInForce(prev, last.user_id, BatchArg[1].work_date),
        v2 \in VersionInForce(prev, last.user_id, BatchArg[2].work_date) :
       /\ v1.effective_from <= BatchArg[1].work_date
       /\ BatchArg[1].work_date < v2.effective_from
       /\ v2.effective_from <= BatchArg[2].work_date
  /\ \E w1 \in RowsOn(db, last.user_id, BatchArg[1].work_date),
        w2 \in RowsOn(db, last.user_id, BatchArg[2].work_date) :
       w1.schedule_id # w2.schedule_id

(***************************************************************************)
(* C4: never more than one live work shift for one (owner, work_date).     *)
(***************************************************************************)
C4_OneLiveWorkShiftPerDate ==
  \A w1, w2 \in db.work_shifts :
    (/\ w1.owner_user_id = w2.owner_user_id
     /\ w1.work_date = w2.work_date
     /\ w1.deleted_at = FALSE /\ w2.deleted_at = FALSE)
    => w1 = w2

\* an upsert on a date that already had a live work shift
C4_Witness ==
  /\ Returned("upsertWorkShift")
  /\ \E w \in RowsOn(prev, last.user_id, last.args.work_date) :
       w.deleted_at = FALSE
  /\ \E w \in RowsOn(db, last.user_id, last.args.work_date) :
       w.deleted_at = FALSE

(***************************************************************************)
(* C5: after an upsert of (owner, work_date), single or as a batch entry,  *)
(* there is one row for that date and it carries the note and the shift    *)
(* type of this call, also when a row was there before; the same call      *)
(* again succeeds and, when each of its codes names exactly one live shift *)
(* type of the owner's template, leaves the store as it is.                *)
(***************************************************************************)
C5_OverwritesOne(user_id, day, code, note) ==
  /\ Cardinality(RowsOn(db, user_id, day)) = 1
  /\ \A w \in RowsOn(db, user_id, day) :
       /\ w.note = StoredNote(note)
       /\ \E s \in ScheduleOf(db, w) : \E st \in db.shift_types :
            st.shift_type_id = s.shift_type_id /\ st.code = code

C5_NamesOne(code) ==
  Cardinality({st \in OwnLiveShiftTypes(db, last.user_id) : st.code = code}) = 1

C5_Overwrites ==
  /\ Returned("upsertWorkShift") =>
       C5_OverwritesOne(last.user_id, last.args.work_date,
                        last.args.shift_type_code, last.args.note)
  /\ Returned("batchUpsertWorkShifts") =>
       \A i \in 1..Len(BatchArg) :
         C5_OverwritesOne(last.user_id, BatchArg[i].work_date,
                          BatchArg[i].shift_type_code, BatchArg[i].note)

\* the same call again, on the store the call has left
C5_Repeated ==
  IF last.op = "upsertWorkShift"
  THEN upsertWorkShift(db, ServerUtcOffset, last.user_id, last.args.work_date,
                       last.args.shift_type_code, last.args.note)
  ELSE batchUpsertWorkShifts(db, ServerUtcOffset, last.user_id, BatchArg)

C5_CodesOfCall ==
  IF last.op = "upsertWorkShift"
  THEN {last.args.shift_type_code}
  ELSE {BatchArg[i].shift_type_code : i \in 1..Len(BatchArg)}

C6_LiveAgain(user_id, day) ==
  (\E w \in RowsOn(prev, user_id, day) : w.deleted_at)
  => /\ \E w \in RowsOn(db, user_id, day) : ~w.deleted_at
     /\ \E x \in getWorkShifts(db, user_id, day, day) : x.work_date = day

C6_ReupsertRevives ==
  /\ Returned("upsertWorkShift") =>
       C6_LiveAgain(last.user_id, last.args.work_date)
  /\ Returned("batchUpsertWorkShifts") =>
       \A i \in 1..Len(BatchArg) :
         C6_LiveAgain(last.user_id, BatchArg[i].work_date)

(***************************************************************************)
(* C7: upsertWorkShift fails with SHIFT_TYPE_NOT_FOUND exactly when the    *)
(* owner's template has no live shift type with the code, and then writes  *)
(* nothing; when it returns, the work shift references the schedule of     *)
(* (a live shift type with the code, the version with the greatest         *)
(* effective_from), whatever the work_date.                                *)
(***************************************************************************)
C7_SingleUpsertUsesCurrentVersion ==
  Called("upsertWorkShift") =>
    /\ (last.args.shift_type_code \notin OwnLiveCodes(prev, last.user_id))
         <=> (last.err = "SHIFT_TYPE_NOT_FOUND")
    /\ last.err = "SHIFT_TYPE_NOT_FOUND" => db = prev
    /\ last.err = "OK" =>
         Binds(db, last.user_id, last.args.work_date,
               last.args.shift_type_code, CurrentVersionOf(prev, last.user_id))

\* a work_date on which an older version is the one in force
C7_Witness ==
  /\ Returned("upsertWorkShift")
  /\ \E v \in VersionInForce(prev, last.user_id, last.args.work_date) :
       /\ v.effective_from <= last.args.work_date
       /\ v \notin CurrentVersionOf(prev, last.user_id)
  /\ Binds(db, last.user_id, last.args.work_date,
           last.args.shift_type_code, CurrentVersionOf(prev, last.user_id))

(***************************************************************************)
(* C8: when the owner's template has no version at all, a call that gets   *)
(* as far as resolving a version fails and writes nothing; the error is    *)
(* TEMPLATE_NOT_FOUND for upsertWorkShift, updateWorkShift, createShiftType*)
(* and updateShiftType, and TEMPLATE_VERSION_NOT_FOUND carrying the        *)
(* entry's work_date for an entry of batchUpsertWorkShifts.                *)
(***************************************************************************)
C8_NoVersions ==
  /\ OwnTemplates(prev, last.user_id) # {}
  /\ VersionsOf(prev, last.user_id) = {}

\* the call passes every check that comes before the version lookup
C8_ResolvesVersion ==
  CASE last.op = "upsertWorkShift" ->
         last.args.shift_type_code \in OwnLiveCodes(prev, last.user_id)
    [] last.op = "updateWorkShift" ->
         /\ \E w \in prev.work_shifts :
              /\ w.work_shift_id = last.args.work_shift_id
              /\ w.owner_user_id = last.user_id
              /\ ~w.deleted_at
         /\ last.args.shift_type_code \in OwnLiveCodes(prev, last.user_id)
    [] last.op = "createShiftType" ->
         Cardinality(OwnLiveShiftTypes(prev, last.user_id))
           < MAX_SHIFT_TYPES_PER_TEMPLATE
    [] last.op = "updateShiftType" ->
         \E st \in OwnLiveShiftTypes(prev, last.user_id) :
           st.shift_type_id = last.args.shift_type_id
    [] last.op = "batchUpsertWorkShifts" ->
         /\ RepeatedDates(BatchArg) = {}
         /\ Len(BatchArg) >= 1
         /\ BatchArg[1].shift_type_code \in OwnLiveCodes(prev, last.user_id)
    [] OTHER -> FALSE

C8_NoVersionFailsAndWritesNothing ==
  (C8_NoVersions /\ C8_ResolvesVersion) =>
    /\ db = prev
    /\ IF last.op = "batchUpsertWorkShifts"
       THEN /\ last.err = "TEMPLATE_VERSION_NOT_FOUND"
            /\ last.out.work_date = BatchArg[1].work_date
       ELSE last.err = "TEMPLATE_NOT_FOUND"

(***************************************************************************)
(* C8 as stated: the error is TEMPLATE_NOT_FOUND in all five operations.   *)
(***************************************************************************)
C8_AsStated ==
  (C8_NoVersions /\ C8_ResolvesVersion) =>
    (db = prev /\ last.err = "TEMPLATE_NOT_FOUND")

\* a batch entry on a template without versions
C8_Witness ==
  /\ Called("batchUpsertWorkShifts")
  /\ C8_NoVersions /\ C8_ResolvesVersion
  /\ last.err = "TEMPLATE_VERSION_NOT_FOUND"
  /\ db = prev

(***************************************************************************)
(* C9: at most one ShiftTypeSchedule row per (template_version,            *)
(* shift_type); an upsert, update or batch that returns leaves the         *)
(* schedule rows it found as they were, adds a row only for a pair that    *)
(* had none, and every row it adds has no times, crosses_midnight false    *)
(* and duration_minutes 0.                                                 *)
(***************************************************************************)
C9_Materializes ==
  /\ prev.schedules \subseteq db.schedules
  /\ \A s \in db.schedules \ prev.schedules :
       /\ IsDefaultSchedule(s)
       /\ FindSchedule(prev, s.shift_type_id, s.template_version_id) = {}
       /\ \E w \in db.work_shifts : w.schedule_id = s.schedule_id

C9_ScheduleCreateIfAbsent ==
  /\ \A s1, s2 \in db.schedules :
       (/\ s1.template_version_id = s2.template_version_id
        /\ s1.shift_type_id = s2.shift_type_id) => s1 = s2
  /\ (\/ Returned("upsertWorkShift")
      \/ Returned("updateWorkShift")
      \/ Returned("batchUpsertWorkShifts")) => C9_Materializes
  /\ Returned("upsertWorkShift") =>
       Cardinality(db.schedules \ prev.schedules) <= 1

\* one upsert reuses the row of the pair, an earlier one had to create it
C9_Witness ==
  /\ Returned("upsertWorkShift")
  /\ \E w \in RowsOn(db, last.user_id, last.args.work_date) :
       \E s \in ScheduleOf(db, w) :
         /\ s \notin prev.schedules
         /\ IsDefaultSchedule(s)
         /\ Cardinality(FindSchedule(db, s.shift_type_id,
                                     s.template_version_id)) = 1

(***************************************************************************)
(* C10: createShiftType fails with MAX_SHIFT_TYPES_EXCEEDED exactly when   *)
(* the owner's template holds 10 or more live shift types, soft-deleted    *)
(* ones not counted, and then changes nothing.                             *)
(***************************************************************************)
C10_MaxShiftTypes ==
  (Called("createShiftType") /\ OwnTemplates(prev, last.user_id) # {}) =>
    /\ (Cardinality(OwnLiveShiftTypes(prev, last.user_id))
          >= MAX_SHIFT_TYPES_PER_TEMPLATE)
         <=> (last.err = "MAX_SHIFT_TYPES_EXCEEDED")
    /\ last.err = "MAX_SHIFT_TYPES_EXCEEDED" => db = prev

\* the 11th live shift type is refused on a template that also holds a
\* soft-deleted one
C10_Witness ==
  /\ Called("createShiftType")
  /\ last.err = "MAX_SHIFT_TYPES_EXCEEDED"
  /\ Cardinality(OwnLiveShiftTypes(prev, last.user_id))
       = MAX_SHIFT_TYPES_PER_TEMPLATE
  /\ \E st \in prev.shift_types :
       /\ st.deleted_at
       /\ \E t \in OwnTemplates(prev, last.user_id) :
            st.template_id = t.template_id
  /\ db = prev

(***************************************************************************)
(* C11: deleteShiftType by the owner of the template, on a live shift      *)
(* type: when no live work shift references a schedule of the shift type   *)
(* in any version, the shift type is stamped deleted and nothing else      *)
(* changes (its schedules stay); when some live work shift references one, *)
(* the call fails with IN_USE and nothing changes.  Soft-deleted work      *)
(* shifts do not count.                                                    *)
(***************************************************************************)
C11_Target ==
  {st \in prev.shift_types :
     /\ st.shift_type_id = last.args.shift_type_id
     /\ ~st.deleted_at
     /\ \E t \in prev.templates :
          t.template_id = st.template_id /\ t.owner_user_id = last.user_id}

C11_LiveReferences(shift_type_id) ==
  {w \in prev.work_shifts :
     /\ ~w.deleted_at
     /\ \E s \in prev.schedules :
          s.shift_type_id = shift_type_id /\ s.schedule_id = w.schedule_id}

C11_DeleteShiftTypeInUse ==
  Called("deleteShiftType") =>
    \A st \in C11_Target :
      IF C11_LiveReferences(st.shift_type_id) = {}
      THEN /\ last.err = "OK"
           /\ db = [prev EXCEPT !.shift_types =
                      (@ \ {st}) \cup {[st EXCEPT !.deleted_at = TRUE]}]
      ELSE last.err = "IN_USE" /\ db = prev

\* the only live reference goes to a schedule of a version that is not
\* the current one
C11_Witness ==
  /\ Called("deleteShiftType")
  /\ last.err = "IN_USE"
  /\ \E st \in C11_Target :
       /\ C11_LiveReferences(st.shift_type_id) # {}
       /\ \A w \in C11_LiveReferences(st.shift_type_id) :
            \A s \in ScheduleOf(prev, w) :
              \A v \in CurrentVersionOf(prev, last.user_id) :
                s.template_version_id # v.template_version_id
       /\ CurrentVersionOf(prev, last.user_id) # {}
  /\ db = prev

\* a soft-deleted work shift references the shift type, the delete goes on
C11_DeletedReferenceReached ==
  /\ Returned("deleteShiftType")
  /\ \E w \in prev.work_shifts : \E s \in ScheduleOf(prev, w) :
       w.deleted_at /\ s.shift_type_id = last.args.shift_type_id

(***************************************************************************)
(* Vocabulary of the shift type updates                                    *)
(***************************************************************************)
\* the schedule row of the updated shift type in the current version
CurrentScheduleRow ==
  {s \in prev.schedules :
     /\ s.shift_type_id = last.args.shift_type_id
     /\ \E st \in C11_Target : \E v \in prev.versions :
          /\ v.template_id = st.template_id
          /\ v.template_version_id = s.template_version_id
          /\ \A w \in prev.versions :
               w.template_id = st.template_id
                 => w.effective_from <= v.effective_from}

LiveReferencesTo(row) ==
  {w \in prev.work_shifts : ~w.deleted_at /\ w.schedule_id = row.schedule_id}

ReferencesTo(row) ==
  {w \in prev.work_shifts : w.schedule_id = row.schedule_id}

Zeroed(row) ==
  [row EXCEPT !.start_time = TimeNull, !.end_time = TimeNull,
              !.crosses_midnight = FALSE, !.duration_minutes = 0]

NullTimesGiven ==
  /\ Called("updateShiftType")
  /\ last.args.start_time = TimeNull
  /\ last.args.end_time = TimeNull

(***************************************************************************)
(* C12: updateShiftType with start_time and end_time both null, on the     *)
(* schedule row of the current version: when a live work shift references  *)
(* the row, the row is kept with null times, crosses_midnight false and    *)
(* duration_minutes 0; when no live work shift references it, the row is   *)
(* deleted; no other schedule row changes.                                 *)
(***************************************************************************)
C12_NullTimesZeroOrDelete ==
  NullTimesGiven =>
    \A row \in CurrentScheduleRow :
      /\ last.err = "OK"
      /\ db.schedules =
           IF LiveReferencesTo(row) # {}
           THEN (prev.schedules \ {row}) \cup {Zeroed(row)}
           ELSE prev.schedules \ {row}

\* C12 where the row is referenced by a live work shift or by none at all
C12_ExceptDeletedReferences ==
  NullTimesGiven =>
    \A row \in CurrentScheduleRow :
      (LiveReferencesTo(row) # {} \/ ReferencesTo(row) = {}) =>
        /\ last.err = "OK"
        /\ db.schedules =
             IF LiveReferencesTo(row) # {}
             THEN (prev.schedules \ {row}) \cup {Zeroed(row)}
             ELSE prev.schedules \ {row}

\* the row is referenced by soft-deleted work shifts only
C12_DeletedReferencesOnly ==
  NullTimesGiven =>
    \A row \in CurrentScheduleRow :
      (LiveReferencesTo(row) = {} /\ ReferencesTo(row) # {}) =>
        /\ last.err = "SequelizeForeignKeyConstraintError"
        /\ db = prev

C12_ZeroedReached ==
  /\ NullTimesGiven /\ last.err = "OK"
  /\ \E row \in CurrentScheduleRow :
       LiveReferencesTo(row) # {} /\ row # Zeroed(row) /\ Zeroed(row) \in db.schedules

C12_DeletedReached ==
  /\ NullTimesGiven /\ last.err = "OK"
  /\ \E row \in CurrentScheduleRow : ReferencesTo(row) = {} /\ row \notin db.schedules

(***************************************************************************)
(* C13: updateShiftType creates, changes or deletes no schedule row but    *)
(* one of the updated shift type in the current version (greatest          *)
(* effective_from) of its template: the rows of every other version, and   *)
(* of every other shift type, are after the call what they were before.    *)
(***************************************************************************)
IsCurrentVersionId(d, template_version_id) ==
  \E v \in d.versions :
    /\ v.template_version_id = template_version_id
    /\ \A w \in d.versions :
         w.template_id = v.template_id => w.effective_from <= v.effective_from

C13_HistoricalSchedulesUntouched ==
  Called("updateShiftType") =>
    \A s \in (db.schedules \ prev.schedules) \cup (prev.schedules \ db.schedules) :
      /\ s.shift_type_id = last.args.shift_type_id
      /\ IsCurrentVersionId(prev, s.template_version_id)

\* times are set on a shift type that has a schedule row in an older
\* version
C13_Witness ==
  /\ Returned("updateShiftType")
  /\ db.schedules # prev.schedules
  /\ \E s \in prev.schedules :
       /\ s.shift_type_id = last.args.shift_type_id
       /\ ~IsCurrentVersionId(prev, s.template_version_id)
       /\ s \in db.schedules

(***************************************************************************)
(* C14: updateShiftType with start_time and end_time both omitted leaves   *)
(* every schedule row unchanged and returns the times, crosses_midnight    *)
(* and duration_minutes stored in the current version's schedule row of    *)
(* the shift type.                                                         *)
(***************************************************************************)
TimesOmitted ==
  /\ Called("updateShiftType")
  /\ last.args.start_time = TimeUndef
  /\ last.args.end_time = TimeUndef

C14_OmittedTimesPreserve ==
  TimesOmitted =>
    /\ db.schedules = prev.schedules
    /\ last.err = "OK" =>
         \A row \in CurrentScheduleRow :
           /\ last.out.start_time = row.start_time
           /\ last.out.end_time = row.end_time
           /\ last.out.crosses_midnight = row.crosses_midnight
           /\ last.out.duration_minutes = row.duration_minutes

\* the code is changed, the stored times are not null and come back
C14_Witness ==
  /\ TimesOmitted /\ last.err = "OK"
  /\ last.args.code # CodeUndef
  /\ \E row \in CurrentScheduleRow :
       /\ row.start_time # TimeNull
       /\ last.out.start_time = row.start_time
       /\ last.out.duration_minutes = row.duration_minutes
  /\ db.schedules = prev.schedules
  /\ db.shift_types # prev.shift_types

(***************************************************************************)
(* C15: a createShiftType that returns has added one shift type and one    *)
(* schedule row, that of (the new shift type, the current version of the   *)
(* template); the row carries the given times, and null times with         *)
(* crosses_midnight false and duration_minutes 0 when no times were given. *)
(* A createShiftType that fails leaves neither a shift type nor a          *)
(* schedule row behind.                                                    *)
(***************************************************************************)
C15_NewSchedules == {s \in db.schedules : s.shift_type_id = last.out.shift_type_id}

C15_TimesGiven ==
  /\ last.args.start_time \notin {TimeNull, TimeUndef}
  /\ last.args.end_time \notin {TimeNull, TimeUndef}

C15_CreateMaterializesSchedule ==
  Called("createShiftType") =>
    IF last.err = "OK"
    THEN /\ db.shift_types \ prev.shift_types =
              {st \in db.shift_types :
                 st.shift_type_id = last.out.shift_type_id}
         /\ \A st \in db.shift_types \ prev.shift_types :
              ~st.deleted_at /\ st.code = last.args.code
         /\ prev.shift_types \subseteq db.shift_types
         /\ Cardinality(db.shift_types \ prev.shift_types) = 1
         /\ prev.schedules \subseteq db.schedules
         /\ db.schedules \ prev.schedules = C15_NewSchedules
         /\ Cardinality(C15_NewSchedules) = 1
         /\ \A s \in C15_NewSchedules :
              /\ \E v \in CurrentVersionOf(prev, last.user_id) :
                   s.template_version_id = v.template_version_id
              /\ IF C15_TimesGiven
                 THEN /\ s.start_time = last.args.start_time
                      /\ s.end_time = last.args.end_time
                 ELSE IsDefaultSchedule(s)
    ELSE db = prev

\* no times given, on a template with an older version besides the current
C15_Witness ==
  /\ Returned("createShiftType")
  /\ last.args.start_time = TimeNull /\ last.args.end_time = TimeNull
  /\ Cardinality(VersionsOf(prev, last.user_id)) >= 2
  /\ \E s \in C15_NewSchedules : IsDefaultSchedule(s)

\* the call fails on the version lookup, after the shift type was inserted
C15_FailureReached ==
  /\ Called("createShiftType")
  /\ last.err = "TEMPLATE_NOT_FOUND"
  /\ OwnTemplates(prev, last.user_id) # {}
  /\ db = prev

(***************************************************************************)
(* C16: updateShiftType and deleteShiftType fail with FORBIDDEN exactly    *)
(* when the shift type exists (live) and the caller is not the owner of    *)
(* its template, and a call that ends in FORBIDDEN has changed no row.     *)
(***************************************************************************)
C16_ForeignTarget ==
  \E st \in prev.shift_types :
    /\ st.shift_type_id = last.args.shift_type_id
    /\ ~st.deleted_at
    /\ \E t \in prev.templates :
         t.template_id = st.template_id /\ t.owner_user_id # last.user_id

C16_ForbiddenWritesNothing ==
  (Called("updateShiftType") \/ Called("deleteShiftType")) =>
    /\ C16_ForeignTarget <=> (last.err = "FORBIDDEN")
    /\ last.err = "FORBIDDEN" => db = prev

\* an update by another user that asks for a new code and new times
C16_Witness ==
  /\ Called("updateShiftType")
  /\ last.err = "FORBIDDEN"
  /\ last.args.code # CodeUndef
  /\ last.args.start_time \notin {TimeNull, TimeUndef}
  /\ last.args.end_time \notin {TimeNull, TimeUndef}
  /\ db = prev

C16_DeleteForbiddenReached ==
  Called("deleteShiftType") /\ last.err = "FORBIDDEN" /\ db = prev

(***************************************************************************)
(* C17: a createShiftType or updateShiftType request in which exactly one  *)
(* of start_time and end_time is a time of day (the other null or absent)  *)
(* fails and writes nothing.                                               *)
(***************************************************************************)
C17_IsTime(time) == time \notin {TimeNull, TimeUndef}

C17_OneSided ==
  C17_IsTime(last.args.start_time) # C17_IsTime(last.args.end_time)

C17_OneSidedTimesRejected ==
  ((Called("createShiftType") \/ Called("updateShiftType")) /\ C17_OneSided) =>
    last.err # "OK" /\ db = prev

\* createShiftType with one time returns a shift type whose schedule has no times
C17_CreateStoresNoTimes ==
  /\ Called("createShiftType")
  /\ C17_OneSided
  /\ last.err = "OK"
  /\ \E s \in db.schedules \ prev.schedules : IsDefaultSchedule(s)

\* updateShiftType with one time and one null removes or zeroes the stored times
C17_UpdateClearsTimes ==
  /\ Called("updateShiftType")
  /\ C17_OneSided
  /\ last.err = "OK"
  /\ db.schedules # prev.schedules

(***************************************************************************)
(* C18: for start and end times of day in whole minutes, calculateTimeInfo *)
(* returns crosses_midnight = (start > end) and duration_minutes =         *)
(* 1440 - start + end when start > end, else end - start; the duration is  *)
(* in 0..1439; equal times give (false, 0), 22:30-07:00 gives (true, 510), *)
(* 06:30-15:00 gives (false, 510); and the derived fields of the four      *)
(* default shift types are those calculateTimeInfo computes.               *)
(***************************************************************************)
MinuteOfDay(time) == time[1] * 60 + time[2]

C18_DefaultsAgree ==
  \A i \in 1..Len(DEFAULT_SHIFT_TYPES) :
    LET def == DEFAULT_SHIFT_TYPES[i]
    IN  calculateTimeInfo(def.start_time, def.end_time) =
          [crosses_midnight |-> def.crosses_midnight,
           duration_minutes |-> def.duration_minutes]

C18_CalculateTimeInfo ==
  /\ C18_DefaultsAgree
  /\ Called("calculateTimeInfo") =>
       LET start == MinuteOfDay(last.args.start_time)
           end == MinuteOfDay(last.args.end_time)
       IN  /\ last.out.crosses_midnight = (start > end)
           /\ last.out.duration_minutes =
                IF start > end THEN 1440 - start + end ELSE end - start
           /\ last.out.duration_minutes \in 0..1439
           /\ start = end =>
                last.out = [crosses_midnight |-> FALSE, duration_minutes |-> 0]
           /\ (last.args.start_time = <<22, 30, 0>> /\ last.args.end_time = <<7, 0, 0>>) =>
                last.out = [crosses_midnight |-> TRUE, duration_minutes |-> 510]
           /\ (last.args.start_time = <<6, 30, 0>> /\ last.args.end_time = <<15, 0, 0>>) =>
                last.out = [crosses_midnight |-> FALSE, duration_minutes |-> 510]

\* the night shift 22:30-07:00 has been computed
C18_Witness ==
  /\ Called("calculateTimeInfo")
  /\ last.args.start_time = <<22, 30, 0>>
  /\ last.args.end_time = <<7, 0, 0>>
  /\ last.out = [crosses_midnight |-> TRUE, duration_minutes |-> 510]

(***************************************************************************)
(* C19: deleteWorkShift never removes a WorkShift row.  On a live row of   *)
(* the caller it sets deleted_at and deleted_by_user_id = caller and       *)
(* changes nothing else; on a row that is soft-deleted, missing or owned   *)
(* by another user it fails with WORK_SHIFT_NOT_FOUND and changes nothing. *)
(***************************************************************************)
C19_Named == {w \in prev.work_shifts : w.work_shift_id = last.args.work_shift_id}

C19_Target ==
  {w \in C19_Named : w.owner_user_id = last.user_id /\ ~w.deleted_at}

C19_DeleteWorkShiftSoftDeletes ==
  Called("deleteWorkShift") =>
    /\ {w.work_shift_id : w \in prev.work_shifts} \subseteq
         {w.work_shift_id : w \in db.work_shifts}
    /\ IF C19_Target # {}
       THEN /\ last.err = "OK"
            /\ db = [prev EXCEPT !.work_shifts =
                       (@ \ C19_Target) \cup
                         {[w EXCEPT !.deleted_at = TRUE,
                                    !.deleted_by_user_id = last.user_id]
                          : w \in C19_Target}]
       ELSE last.err = "WORK_SHIFT_NOT_FOUND" /\ db = prev

C19_Witness ==
  /\ Called("deleteWorkShift")
  /\ last.err = "OK"
  /\ \E w \in db.work_shifts :
       /\ w.work_shift_id = last.args.work_shift_id
       /\ w.deleted_at
       /\ w.deleted_by_user_id = last.user_id
       /\ w \notin prev.work_shifts

\* the owner deletes a row that is already soft-deleted
C19_AlreadyDeletedReached ==
  /\ Called("deleteWorkShift")
  /\ last.err = "WORK_SHIFT_NOT_FOUND"
  /\ \E w \in C19_Named : w.owner_user_id = last.user_id /\ w.deleted_at

\* a user names a live row of another user
C19_OtherUserReached ==
  /\ Called("deleteWorkShift")
  /\ last.err = "WORK_SHIFT_NOT_FOUND"
  /\ \E w \in C19_Named : w.owner_user_id # last.user_id /\ ~w.deleted_at

C19_MissingReached ==
  Called("deleteWorkShift") /\ last.err = "WORK_SHIFT_NOT_FOUND" /\ C19_Named = {}

(***************************************************************************)
(* C20: in every reachable state each user owns at most one non-deleted    *)
(* ShiftTemplate, for any interleaving of ensureDefaultTemplate calls with *)
(* updateTemplateName calls of the same user.                              *)
(***************************************************************************)
C20_AtMostOneLiveTemplate ==
  \A user_id \in Users : Cardinality(OwnTemplates(db, user_id)) <= 1

\* what the unique index does enforce: no two live templates of a user
\* share a name
C20_LiveNamesDistinct ==
  \A t1 \in db.templates, t2 \in db.templates :
    (/\ t1.owner_user_id = t2.owner_user_id
     /\ t1.name = t2.name
     /\ ~t1.deleted_at /\ ~t2.deleted_at) => t1 = t2

\* the second of two overlapping calls is refused by the index
C20_SecondCreateRefused ==
  /\ Called("createDefaultShiftTemplate")
  /\ last.err = "SequelizeUniqueConstraintError"
  /\ db = prev

(***************************************************************************)
(* C21: every batchUpsertWorkShifts call that opens a transaction finishes *)
(* it exactly once before it returns or throws: commit when every entry    *)
(* succeeded, rollback when a step before the commit failed; rollback is   *)
(* never called after a successful commit, commit is never called twice,   *)
(* and no transaction is left open.                                        *)
(***************************************************************************)
InFlight == {p \in Procs : calls[p].pc # "idle"}

Ended(p) == calls[p].pc \in {"returned", "thrown"}

C21_TransactionFinishedOnce ==
  \A p \in InFlight :
    LET c == calls[p]
    IN  /\ c.commits <= 1
        /\ c.is_committed => c.rollbacks = 0
        /\ c.rollbacks <= 1
        /\ c.commits > 0 => c.i > Len(c.work_shifts)
        /\ ~c.opened => c.finished = "none" /\ c.commits = 0 /\ c.rollbacks = 0
        /\ (Ended(p) /\ c.opened) =>
             /\ c.finished # "none"
             /\ c.own_shifts = {} /\ c.own_schedules = {}
             /\ c.pc = "returned" => c.is_committed /\ c.finished = "commit"
             /\ c.failed_at = "entry" =>
                  c.finished = "rollback" /\ c.commits = 0 /\ c.rollbacks = 1

\* an entry has failed after an earlier one was written, and the call has
\* thrown with its transaction rolled back
C21_Witness ==
  \E p \in InFlight :
    /\ calls[p].pc = "thrown"
    /\ calls[p].failed_at = "entry"
    /\ calls[p].i > 1
    /\ calls[p].finished = "rollback"

C21_CommittedReached ==
  \E p \in InFlight : calls[p].pc = "returned" /\ calls[p].finished = "commit"

\* the re-read after the commit has failed: the error is thrown, no rollback
C21_RereadFailureReached ==
  \E p \in InFlight :
    /\ calls[p].pc = "thrown"
    /\ calls[p].failed_at = "reread"
    /\ calls[p].rollbacks = 0

C21_DeadlockReached ==
  \E p \in InFlight :
    calls[p].pc = "thrown" /\ calls[p].err = "SequelizeDatabaseError"

(***************************************************************************)
(* C22: whenever batchUpsertWorkShifts ends with an error returned to its  *)
(* caller, none of the batch's WorkShift writes is visible in the store    *)
(* (failure at an entry, of the commit, or of the re-read after it).       *)
(***************************************************************************)
Alone(p) == \A q \in Procs \ {p} : calls[q].pc = "idle"

C22_StoreAsBefore(p) ==
  /\ db.work_shifts = calls[p].before.work_shifts
  /\ db.schedules = calls[p].before.schedules

C22_ErrorLeavesNoWrites ==
  \A p \in InFlight :
    (calls[p].pc = "thrown" /\ Alone(p)) => C22_StoreAsBefore(p)

\* the part that holds: an error at an entry or at the commit
C22_ErrorBeforeCommitLeavesNoWrites ==
  \A p \in InFlight :
    (calls[p].pc = "thrown" /\ Alone(p) /\ ~calls[p].is_committed) =>
      C22_StoreAsBefore(p)

C22_CommitFailureReached ==
  \E p \in InFlight :
    /\ calls[p].pc = "thrown" /\ Alone(p)
    /\ calls[p].failed_at = "commit"
    /\ C22_StoreAsBefore(p)

\* the re-read failed: the caller gets the error and the rows are stored
C22_RereadFailureKeepsWrites ==
  \E p \in InFlight :
    /\ calls[p].pc = "thrown" /\ Alone(p)
    /\ calls[p].failed_at = "reread"
    /\ db.work_shifts # calls[p].before.work_shifts

(***************************************************************************)
(* C23: a batch that fails on an unknown shift-type code fails with        *)
(* INVALID_SHIFT_TYPE carrying the code and the work_date of the first     *)
(* entry in list order whose code is no live shift type of the owner's     *)
(* template; the entries after it are never processed; a code that exists  *)
(* only in another user's template or only soft-deleted is unknown.        *)
(***************************************************************************)
C23_Unknown(c) ==
  {k \in 1..Len(c.work_shifts) :
     c.work_shifts[k].shift_type_code \notin OwnLiveCodes(db, c.user_id)}

C23_FirstUnknown(c) ==
  CHOOSE k \in C23_Unknown(c) : \A j \in C23_Unknown(c) : k <= j

C23_FirstUnknownCodeReported ==
  \A p \in InFlight :
    LET c == calls[p]
    IN  /\ (c.opened /\ C23_Unknown(c) # {}) =>
             /\ c.i <= C23_FirstUnknown(c)
             /\ c.commits = 0
             /\ (Ended(p) /\ c.err # "SequelizeDatabaseError") =>
                  c.err = "INVALID_SHIFT_TYPE"
        /\ c.err = "INVALID_SHIFT_TYPE" =>
             /\ C23_Unknown(c) # {}
             /\ c.i = C23_FirstUnknown(c)
             /\ Cardinality(c.saved) = c.i - 1
             /\ c.out = [invalid_code |-> c.work_shifts[c.i].shift_type_code,
                         work_date |-> c.work_shifts[c.i].work_date]

\* the unknown code is in the first entry, whose date is the later one
C23_Witness ==
  \E p \in InFlight :
    /\ calls[p].pc = "thrown"
    /\ calls[p].err = "INVALID_SHIFT_TYPE"
    /\ Len(calls[p].work_shifts) = 2
    /\ calls[p].i = 1
    /\ calls[p].work_shifts[1].work_date > calls[p].work_shifts[2].work_date
    /\ calls[p].out.work_date = calls[p].work_shifts[1].work_date

\* both entries are unknown and the first is the one reported
C23_TwoUnknownReached ==
  \E p \in InFlight :
    /\ calls[p].pc = "thrown"
    /\ calls[p].err = "INVALID_SHIFT_TYPE"
    /\ C23_Unknown(calls[p]) = {1, 2}
    /\ calls[p].i = 1

\* the code is a live shift type of the other user only
C23_ForeignCodeReached ==
  \E p \in InFlight :
    /\ calls[p].err = "INVALID_SHIFT_TYPE"
    /\ \E st \in db.shift_types :
         st.code = calls[p].out.invalid_code /\ ~st.deleted_at

\* the code is a soft-deleted shift type of the owner's template
C23_DeletedCodeReached ==
  \E p \in InFlight :
    /\ calls[p].err = "INVALID_SHIFT_TYPE"
    /\ \E st \in db.shift_types :
         /\ st.code = calls[p].out.invalid_code
         /\ st.deleted_at
         /\ st.template_id = calls[p].template.template_id

(***************************************************************************)
(* C24: two batchUpsertWorkShifts requests of the same owner that run      *)
(* concurrently with overlapping dates both complete without an error,     *)
(* whatever the order of the dates inside each list, and afterwards every  *)
(* overlapping date has exactly one row, which carries the schedule and    *)
(* note of the batch that committed last.                                  *)
(***************************************************************************)
C24_DatesOf(c) == {c.work_shifts[k].work_date : k \in 1..Len(c.work_shifts)}

\* two requests of one owner with a date in common, all codes known, that
\* have ended without a failure of the commit or of the re-read
C24_Pairs ==
  {pq \in InFlight \X InFlight :
     /\ pq[1] # pq[2]
     /\ \A p \in {pq[1], pq[2]} :
          /\ Ended(p)
          /\ calls[p].opened
          /\ C23_Unknown(calls[p]) = {}
          /\ calls[p].failed_at \notin {"commit", "reread"}
     /\ calls[pq[1]].user_id = calls[pq[2]].user_id
     /\ C24_DatesOf(calls[pq[1]]) \cap C24_DatesOf(calls[pq[2]]) # {}}

\* every date the two lists share has one row, written by the entry of last
C24_CarriesLast(last_one, other) ==
  \A k \in 1..Len(calls[last_one].work_shifts) :
    LET ws == calls[last_one].work_shifts[k]
    IN  ws.work_date \in C24_DatesOf(calls[other]) =>
          /\ Cardinality(RowsOn(db, calls[last_one].user_id, ws.work_date)) = 1
          /\ \A w \in RowsOn(db, calls[last_one].user_id, ws.work_date) :
               /\ w.note = ws.note
               /\ \E sc \in ScheduleOf(db, w) :
                    \E st \in OwnLiveShiftTypes(db, calls[last_one].user_id) :
                      st.shift_type_id = sc.shift_type_id
                        /\ st.code = ws.shift_type_code

C24_NoMix ==
  \A pq \in C24_Pairs :
    (/\ calls[pq[1]].pc = "returned" /\ calls[pq[2]].pc = "returned"
     /\ calls[pq[1]].committed_at > calls[pq[2]].committed_at)
      => C24_CarriesLast(pq[1], pq[2])

C24_ConcurrentBatchesBothComplete ==
  /\ \A pq \in C24_Pairs :
       calls[pq[1]].pc = "returned" /\ calls[pq[1]].err = "OK"
  /\ C24_NoMix

\* both requests were in their loops at once, the second waited for the
\* row of the first, and both have returned
C24_OverlapReturned ==
  \E pq \in C24_Pairs :
    /\ calls[pq[1]].pc = "returned" /\ calls[pq[2]].pc = "returned"
    /\ calls[pq[1]].committed_at > calls[pq[2]].committed_at
    /\ Len(calls[pq[1]].work_shifts) = 2 /\ Len(calls[pq[2]].work_shifts) = 2
    /\ calls[pq[1]].work_shifts[1].shift_type_code
         # calls[pq[2]].work_shifts[1].shift_type_code

\* the two lists name the same two dates in opposite orders, and one of the
\* requests has been ended by the store as the victim of a deadlock
C24_DeadlockVictim ==
  \E pq \in C24_Pairs :
    /\ calls[pq[1]].pc = "thrown"
    /\ calls[pq[1]].err = "SequelizeDatabaseError"
    /\ calls[pq[2]].pc = "returned"
    /\ calls[pq[1]].work_shifts[1].work_date = calls[pq[2]].work_shifts[2].work_date
    /\ calls[pq[1]].work_shifts[2].work_date = calls[pq[2]].work_shifts[1].work_date

(***************************************************************************)
(* C25: in every reachable state a template has at most 10 live shift      *)
(* types, also when several createShiftType calls for the same template    *)
(* run concurrently, each counting inside its own transaction before it    *)
(* inserts.                                                                *)
(***************************************************************************)
C25_AtMostTenLiveConcurrently ==
  \A t \in db.templates :
    Cardinality(LiveShiftTypes(db, t.template_id)) <= MAX_SHIFT_TYPES_PER_TEMPLATE

\* both requests counted 9 and both have inserted
C25_BothInserted ==
  /\ \A p \in Procs :
       /\ calls[p].pc = "returned"
       /\ calls[p].current_count = MAX_SHIFT_TYPES_PER_TEMPLATE - 1
  /\ \E t \in db.templates :
       Cardinality(LiveShiftTypes(db, t.template_id)) =
         MAX_SHIFT_TYPES_PER_TEMPLATE + 1

\* a request that counts 10 is refused
C25_RefusedReached ==
  \E p \in InFlight :
    calls[p].pc = "thrown" /\ calls[p].err = "MAX_SHIFT_TYPES_EXCEEDED"

(***************************************************************************)
(* C26: a uniqueness violation of the store raised during a batch upsert   *)
(* or a shift-type creation is reported to the caller as                   *)
(* INTERNAL_SERVER_ERROR, never as a domain or validation error.           *)
(***************************************************************************)
C26_Responded == last.op \in {"batchUpsertWorkShifts", "createShiftType"}

C26_UniqueViolationIsInternalError ==
  (/\ C26_Responded
   /\ "error" \in DOMAIN last.args
   /\ last.args.error.name = "SequelizeUniqueConstraintError")
    => last.out = Response(500, "INTERNAL_SERVER_ERROR")

\* the other errors of the store are reported as the internal failure
C26_OtherStoreErrorsAreInternal ==
  (/\ C26_Responded
   /\ "error" \in DOMAIN last.args
   /\ last.args.error \in StoreErrors
   /\ last.args.error.name # "SequelizeUniqueConstraintError")
    => last.out = Response(500, "INTERNAL_SERVER_ERROR")

C26_BatchSaysValidationError ==
  /\ last.op = "batchUpsertWorkShifts"
  /\ "error" \in DOMAIN last.args
  /\ last.args.error.name = "SequelizeUniqueConstraintError"
  /\ last.out = Response(400, "VALIDATION_ERROR")

C26_CreateSaysDuplicateCode ==
  /\ last.op = "createShiftType"
  /\ "error" \in DOMAIN last.args
  /\ last.args.error.name = "SequelizeUniqueConstraintError"
  /\ last.out = Response(400, "DUPLICATE_CODE")

(***************************************************************************)
(* C27: in every state reached by completed createShiftType,               *)
(* updateShiftType, deleteShiftType, upsertWorkShift, updateWorkShift,     *)
(* batchUpsertWorkShifts and deleteWorkShift calls, every live WorkShift   *)
(* references a ShiftTypeSchedule row that exists; the row-deleting branch *)
(* of updateShiftType never removes a schedule a live work shift points to.*)
(***************************************************************************)
\* the schedule rows the last call removed
C27_Removed ==
  {s \in prev.schedules : \A t \in db.schedules : t.schedule_id # s.schedule_id}

C27_LiveWorkShiftsHaveSchedule ==
  /\ \A w \in db.work_shifts : ~w.deleted_at => ScheduleOf(db, w) # {}
  /\ \A s \in C27_Removed :
       \A w \in prev.work_shifts : ~w.deleted_at => w.schedule_id # s.schedule_id

\* updateShiftType has removed a schedule row while live work shifts exist
C27_Witness ==
  /\ Returned("updateShiftType")
  /\ C27_Removed # {}
  /\ \E w \in db.work_shifts : ~w.deleted_at /\ ScheduleOf(db, w) # {}

\* a batch has bound its row to a schedule it created
C27_BatchCreatedSchedule ==
  /\ Returned("batchUpsertWorkShifts")
  /\ \E s \in db.schedules \ prev.schedules :
       \E w \in db.work_shifts : ~w.deleted_at /\ w.schedule_id = s.schedule_id

(***************************************************************************)
(* C28: in every state reached by completed operations no live WorkShift   *)
(* is bound to a schedule whose ShiftType is soft-deleted.                 *)
(***************************************************************************)
C28_ShiftTypeOf(d, w) ==
  {st \in d.shift_types :
     \E s \in ScheduleOf(d, w) : s.shift_type_id = st.shift_type_id}

C28_NoLiveShiftOfDeletedType ==
  \A w \in db.work_shifts :
    ~w.deleted_at => \A st \in C28_ShiftTypeOf(db, w) : ~st.deleted_at

\* a shift type has been soft-deleted while a soft-deleted work shift is
\* bound to it, and live work shifts exist
C28_Witness ==
  /\ Returned("deleteShiftType")
  /\ \E w \in db.work_shifts :
       w.deleted_at /\ \E st \in C28_ShiftTypeOf(db, w) : st.deleted_at

\* deleteShiftType was refused because a live work shift is bound to the type
C28_RefusedReached ==
  /\ Called("deleteShiftType")
  /\ last.err = "IN_USE"
  /\ \E w \in db.work_shifts :
       /\ ~w.deleted_at
       /\ \E st \in C28_ShiftTypeOf(db, w) :
            st.shift_type_id = last.args.shift_type_id

(***************************************************************************)
(* C29: work-shift operations of one user never read as their own, change  *)
(* or delete rows of another user.  upsertWorkShift and                    *)
(* batchUpsertWorkShifts by A write only rows owned by A, bound to         *)
(* schedules of shift types of A's own template; updateWorkShift and       *)
(* deleteWorkShift by A on a row of B fail with WORK_SHIFT_NOT_FOUND and   *)
(* leave the row unchanged.                                                *)
(***************************************************************************)
C29_WorkShiftOps ==
  {"upsertWorkShift", "updateWorkShift", "deleteWorkShift",
   "batchUpsertWorkShifts"}

C29_RowsOfOthers(d, user_id) ==
  {w \in d.work_shifts : w.owner_user_id # user_id}

\* the owners of the template of the shift type of the schedule
C29_ScheduleOwners(d, schedule_id) ==
  {t.owner_user_id : t \in
     {t \in d.templates :
        \E st \in d.shift_types, sc \in d.schedules :
          /\ sc.schedule_id = schedule_id
          /\ sc.shift_type_id = st.shift_type_id
          /\ st.template_id = t.template_id}}

C29_NamesRowOfOther ==
  \E w \in prev.work_shifts :
    /\ w.work_shift_id = last.args.work_shift_id
    /\ w.owner_user_id # last.user_id

C29_UserIsolation ==
  /\ last.op \in C29_WorkShiftOps =>
       /\ C29_RowsOfOthers(db, last.user_id) = C29_RowsOfOthers(prev, last.user_id)
       /\ \A w \in db.work_shifts \ prev.work_shifts :
            w.owner_user_id = last.user_id
       /\ \A s \in db.schedules \ prev.schedules :
            C29_ScheduleOwners(db, s.schedule_id) = {last.user_id}
  /\ last.op \in {"upsertWorkShift", "batchUpsertWorkShifts"} =>
       \A w \in db.work_shifts \ prev.work_shifts :
         C29_ScheduleOwners(db, w.schedule_id) = {last.user_id}
  /\ (last.op \in {"updateWorkShift", "deleteWorkShift"} /\ C29_NamesRowOfOther) =>
       last.err = "WORK_SHIFT_NOT_FOUND" /\ db = prev
  /\ \A user_id \in Users :
       \A r \in getWorkShifts(db, user_id, 1, MaxDate) :
         \E w \in db.work_shifts :
           w.work_shift_id = r.work_shift_id /\ w.owner_user_id = user_id

\* u2 asks to change the code and the note of a live row of u1
C29_Witness ==
  /\ Called("updateWorkShift")
  /\ last.args.shift_type_code # CodeUndef
  /\ last.args.note # NoteUndef
  /\ \E w \in prev.work_shifts :
       /\ w.work_shift_id = last.args.work_shift_id
       /\ w.owner_user_id # last.user_id
       /\ ~w.deleted_at
  /\ last.err = "WORK_SHIFT_NOT_FOUND"
  /\ db = prev

\* a user writes a row on a date on which another user has a live row
C29_SameDateReached ==
  /\ last.op \in {"upsertWorkShift", "batchUpsertWorkShifts"}
  /\ last.err = "OK"
  /\ \E w \in db.work_shifts \ prev.work_shifts :
       \E o \in C29_RowsOfOthers(db, last.user_id) :
         o.work_date = w.work_date /\ ~o.deleted_at

(***************************************************************************)
(* C30: a refresh token yields new tokens at most once.  A                  *)
(* rotateRefreshToken call that starts after the token it presents has     *)
(* been revoked (by an earlier rotateRefreshToken, by revokeRefreshToken   *)
(* or by revokeAllUserTokens) returns null, and of two rotateRefreshToken  *)
(* calls that present the same token, also when they run side by side, at  *)
(* most one returns new tokens.                                            *)
(***************************************************************************)
C30_Rotating == {p \in Procs : calls[p].pc # "idle"}

C30_GotTokens(p) ==
  /\ p \in C30_Rotating
  /\ calls[p].pc = "returned"
  /\ calls[p].out # NoOut

C30_ReturnedNull(p) ==
  /\ p \in C30_Rotating
  /\ calls[p].pc = "returned"
  /\ calls[p].out = NoOut

C30_SameToken(p, q) ==
  /\ p # q
  /\ p \in C30_Rotating
  /\ q \in C30_Rotating
  /\ calls[p].old_refresh_token = calls[q].old_refresh_token

C30_TokenYieldsTokensOnce ==
  /\ \A p \in C30_Rotating :
       calls[p].revoked_before => ~C30_GotTokens(p)
  /\ \A p, q \in Procs :
       C30_SameToken(p, q) => ~(C30_GotTokens(p) /\ C30_GotTokens(q))

\* what does hold: a call that finds the presented token revoked and no
\* token of the same user and second issued since returns null
C30_RevokedTokenRefused ==
  \A p \in C30_Rotating :
    /\ calls[p].revoked_before
    /\ calls[p].stored_token = 0
    => (calls[p].pc = "returned" /\ calls[p].out = NoOut)

\* the two calls passed findValidRefreshToken before either revoked
C30_BothRotatedReached ==
  \E p, q \in Procs :
    /\ C30_SameToken(p, q)
    /\ C30_GotTokens(p) /\ C30_GotTokens(q)
    /\ ~calls[p].revoked_before /\ ~calls[q].revoked_before

\* one call after the other: the second one is refused
C30_SecondRefusedReached ==
  \E p, q \in Procs :
    /\ C30_SameToken(p, q)
    /\ C30_GotTokens(p)
    /\ calls[q].revoked_before /\ C30_ReturnedNull(q)

\* the new token was signed in the second of the old one: the same string
C30_ReissuedReached ==
  \E p \in Procs :
    /\ C30_GotTokens(p)
    /\ calls[p].out = calls[p].old_refresh_token

\* two new tokens of one second: the unique index refuses the second row
C30_UniqueViolationReached ==
  \E p \in Procs :
    /\ p \in C30_Rotating
    /\ calls[p].pc = "thrown"
    /\ calls[p].err = "SequelizeUniqueConstraintError"

\* a token revoked by logout while a rotation of it is in flight
C30_RotatedAfterLogout ==
  \E p \in Procs :
    /\ C30_GotTokens(p)
    /\ last.op \in {"revokeRefreshToken", "revokeAllUserTokens"}
    /\ \A t \in db.refresh_tokens :
         t.token_hash # hashToken(calls[p].out) => t.revoked_at

====
